---- MODULE Spec2Model ----
(***************************************************************************)
(* Retrieval pipeline of the HR-policy question answering service:         *)
(* document store, vector store with linear-scan cosine search, the        *)
(* retrieval service (RAGServiceImpl), the ask-question use case, the      *)
(* integrated service and the delete path through adapter and main service.*)
(*                                                                         *)
(* Representation.                                                         *)
(*  - A text (content, title, question) is a sequence of symbols, each one  *)
(*    character wide: " " and "\n" are whitespace, every other string is a *)
(*    non-blank symbol (a letter, or a word taken as one symbol).          *)
(*  - Identifiers (category, department) are strings.                      *)
(*  - A float is an exact rational [nan, n, d] (d > 0, lowest terms) or    *)
(*    NaN; rounding of binary floating point is not modelled.  Vectors are *)
(*    drawn from integer vectors whose Euclidean norm is an integer, so    *)
(*    that the cosine is an exact rational.                                *)
(***************************************************************************)
EXTENDS Integers, Sequences, FiniteSets, TLC

(***************************************************************************)
(* Bounds of the model                                                     *)
(***************************************************************************)
\* number of predefined policies loaded by the constructor (the source has 7)
MaxPolicies == 1
\* number of add_document calls made by clients
MaxAdds == 1
\* number of delete_document calls
MaxDeletes == 2
\* rows of the embeddings table in the states the vector search is tried on
MaxRows == 3

(***************************************************************************)
(* Floats                                                                  *)
(***************************************************************************)
Abs(x) == IF x < 0 THEN -x ELSE x

RECURSIVE GCD(_, _)
GCD(a, b) == IF b = 0 THEN a ELSE GCD(b, a % b)

NaN == [nan |-> TRUE, n |-> 0, d |-> 1]

Rat(num, den) ==
    LET s == IF den < 0 THEN -1 ELSE 1
        g == GCD(Abs(num), Abs(den))
    IN  [nan |-> FALSE, n |-> (s * num) \div g, d |-> (s * den) \div g]

Zero == Rat(0, 1)

\* x / y of two integers as the float division does it: 0/0 is NaN
FDiv(x, y) == IF y = 0 THEN NaN ELSE Rat(x, y)

FAdd(a, b) == IF a.nan \/ b.nan THEN NaN ELSE Rat(a.n * b.d + b.n * a.d, a.d * b.d)

FMul(a, b) == IF a.nan \/ b.nan THEN NaN ELSE Rat(a.n * b.n, a.d * b.d)

\* a / k for an integer k > 0
FDivInt(a, k) == IF a.nan THEN NaN ELSE Rat(a.n, a.d * k)

\* the comparison a < b of floats: false whenever an operand is NaN
FLt(a, b) == ~a.nan /\ ~b.nan /\ a.n * b.d < b.n * a.d

\* the comparison a >= b of floats: false whenever an operand is NaN
FGe(a, b) == ~a.nan /\ ~b.nan /\ a.n * b.d >= b.n * a.d

RECURSIVE FSum(_)
FSum(s) == IF s = << >> THEN Zero ELSE FAdd(s[1], FSum(Tail(s)))

(***************************************************************************)
(* Sequences                                                               *)
(***************************************************************************)
\* the element of a set of one element: Only({e : x \in {a}}) is e with x
\* bound to the value of a, computed once
Only(S) == CHOOSE x \in S : TRUE

\* F applied to the value of v, computed once
Let(v, F(_)) == Only({F(x) : x \in {v}})

Reverse(s) == [i \in 1..Len(s) |-> s[Len(s) + 1 - i]]

Min(a, b) == IF a < b THEN a ELSE b

\* s[:k] of Python for k >= 0
Take(s, k) == SubSeq(s, 1, Min(k, Len(s)))

(***************************************************************************)
(* Texts                                                                   *)
(***************************************************************************)
IsSpace(c) == c \in {" ", "\n"}

\* str.lower on the characters of the model
LowerChar(c) ==
    CASE c = "A" -> "a" [] c = "B" -> "b" [] c = "Google" -> "google"
      [] c = "Política" -> "política" [] c = "Diversidad" -> "diversidad"
      [] c = "Trabajo" -> "trabajo" [] c = "Beneficios" -> "beneficios"
      [] c = "Desarrollo" -> "desarrollo" [] c = "Código" -> "código"
      [] c = "Compensación" -> "compensación" [] c = "Vacaciones" -> "vacaciones"
      [] OTHER -> c

Lower(t) == [i \in 1..Len(t) |-> LowerChar(t[i])]

\* str.strip
Strip(t) ==
    Only({ IF \A i \in 1..Len(v) : IsSpace(v[i]) THEN << >>
           ELSE SubSeq(v,
                       CHOOSE i \in 1..Len(v) :
                           ~IsSpace(v[i]) /\ \A j \in 1..(i - 1) : IsSpace(v[j]),
                       Len(v) - (CHOOSE k \in 0..(Len(v) - 1) :
                                    ~IsSpace(v[Len(v) - k])
                                    /\ \A j \in 0..(k - 1) : IsSpace(v[Len(v) - j])))
           : v \in {t} })

\* re.sub(r'\s+', ' ', t): every maximal run of whitespace becomes one space
\* (computed by halving the text)
RECURSIVE CollapseSpace(_)
CollapseSpace(t) ==
    Only({ IF v = << >> THEN << >>
           ELSE IF Len(v) = 1 THEN (IF IsSpace(v[1]) THEN <<" ">> ELSE v)
           ELSE Only({ IF p[1][Len(p[1])] = " " /\ p[2][1] = " "
                       THEN p[1] \o Tail(p[2]) ELSE p[1] \o p[2]
                       : p \in { <<CollapseSpace(a), CollapseSpace(b)>> :
                                    a \in {SubSeq(v, 1, Len(v) \div 2)},
                                    b \in {SubSeq(v, (Len(v) \div 2) + 1, Len(v))} } })
           : v \in {t} })

\* the lines of t that are not blank, each stripped, joined again by "\n"
RECURSIVE StripLines(_)
StripLines(t) ==
    Only({ IF \A i \in 1..Len(v) : v[i] # "\n" THEN Strip(v)
           ELSE Only({ IF p[1] = << >> THEN p[2]
                       ELSE IF p[2] = << >> THEN p[1]
                       ELSE p[1] \o <<"\n">> \o p[2]
                       : p \in { <<Strip(SubSeq(v, 1, n - 1)),
                                   StripLines(SubSeq(v, n + 1, Len(v)))>> :
                                    n \in {CHOOSE i \in 1..Len(v) :
                                              v[i] = "\n" /\ \A j \in 1..(i - 1) : v[j] # "\n"} } })
           : v \in {t} })

\* a cleaning that leaves the case of the letters alone
clean_text_keeps_case(t) ==
    IF t = << >> THEN << >>
    ELSE StripLines(Strip(CollapseSpace(t)))

clean_text(t) ==
    IF t = << >> THEN << >>
    ELSE StripLines(Strip(CollapseSpace(Lower(t))))

\* str.split(): the maximal runs of non-whitespace, in order
\* (computed by halving the text)
RECURSIVE Words(_)
Words(t) ==
    Only({ IF v = << >> THEN << >>
           ELSE IF Len(v) = 1 THEN (IF IsSpace(v[1]) THEN << >> ELSE <<v>>)
           ELSE Only({ IF ~IsSpace(v[Len(v) \div 2]) /\ ~IsSpace(v[(Len(v) \div 2) + 1])
                       THEN SubSeq(p[1], 1, Len(p[1]) - 1)
                              \o <<p[1][Len(p[1])] \o p[2][1]>> \o Tail(p[2])
                       ELSE p[1] \o p[2]
                       : p \in { <<Words(a), Words(b)>> :
                                    a \in {SubSeq(v, 1, Len(v) \div 2)},
                                    b \in {SubSeq(v, (Len(v) \div 2) + 1, Len(v))} } })
           : v \in {t} })

\* " ".join(ws), computed by halving
RECURSIVE Join(_)
Join(ws) ==
    Only({ IF v = << >> THEN << >>
           ELSE IF Len(v) = 1 THEN v[1]
           ELSE Only({ Join(a) \o <<" ">> \o Join(b) :
                          a \in {SubSeq(v, 1, Len(v) \div 2)},
                          b \in {SubSeq(v, (Len(v) \div 2) + 1, Len(v))} })
           : v \in {ws} })

\* a window loop whose next window starts where the last one ended
RECURSIVE SplitLoopNoOverlap(_, _, _, _, _)
SplitLoopNoOverlap(words, chunk_size, overlap, start, chunks) ==
    IF ~(start < Len(words)) THEN chunks
    ELSE Let(Min(start + chunk_size, Len(words)), LAMBDA end :
             SplitLoopNoOverlap(words, chunk_size, overlap, end,
                                Append(chunks, Strip(Join(SubSeq(words, start + 1, end))))))

\* the window loop of split_text, entered with the chunks made so far
RECURSIVE SplitLoop(_, _, _, _, _)
SplitLoop(words, chunk_size, overlap, start, chunks) ==
    IF ~(start < Len(words)) THEN chunks
    ELSE Let(Min(start + chunk_size, Len(words)), LAMBDA end :
         Let(Strip(Join(SubSeq(words, start + 1, end))), LAMBDA chunk :
         Let(IF chunk # << >> THEN Append(chunks, chunk) ELSE chunks, LAMBDA chunks2 :
             IF end >= Len(words) THEN chunks2
             ELSE SplitLoop(words, chunk_size, overlap,
                            IF end - overlap < 0 THEN 0 ELSE end - overlap, chunks2))))

split_text(text, chunk_size, overlap) ==
    IF text = << >> \/ Strip(text) = << >> THEN << >>
    ELSE Only({ IF Len(words) <= chunk_size THEN <<cleaned>>
                ELSE SplitLoop(words, chunk_size, overlap, 0, << >>)
                : <<cleaned, words>> \in { <<c, Words(c)>> : c \in {clean_text(text)} } })

(***************************************************************************)
(* Vectors and cosine similarity                                           *)
(***************************************************************************)
RECURSIVE Dot(_, _)
Dot(u, v) == IF u = << >> THEN 0 ELSE u[1] * v[1] + Dot(Tail(u), Tail(v))

\* np.linalg.norm on the vectors of the model, whose norm is an integer
Norm(v) == CHOOSE r \in 0..Dot(v, v) : r * r = Dot(v, v)

\* np.dot(q, s) / (norm(q) * norm(s)); 0/0 is NaN, no exception
Cosine(q, v) == FDiv(Dot(q, v), Norm(q) * Norm(v))

(***************************************************************************)
(* list.sort(key = similarity_score, reverse = True) as CPython runs it on *)
(* lists shorter than 64: reverse, count the initial run, binary           *)
(* insertion sort with the float comparison <, reverse again               *)
(***************************************************************************)
KeyLt(a, b) == FLt(a.similarity_score, b.similarity_score)

\* length of the initial run of s: strictly descending or non-descending
RECURSIVE RunLen(_, _, _)
RunLen(s, k, desc) ==
    IF k > Len(s) THEN Len(s)
    ELSE IF desc = KeyLt(s[k], s[k - 1]) THEN RunLen(s, k + 1, desc)
    ELSE k - 1

\* binary search of the insertion point of pivot in s[l+1 .. r]
RECURSIVE BinPos(_, _, _, _)
BinPos(s, pivot, l, r) ==
    IF ~(l < r) THEN l
    ELSE Let(l + ((r - l) \div 2), LAMBDA p :
             IF KeyLt(pivot, s[p + 1]) THEN BinPos(s, pivot, l, p)
             ELSE BinPos(s, pivot, p + 1, r))

\* binarysort: s[1 .. start-1] is sorted, insert s[start], s[start+1], ...
RECURSIVE BinarySort(_, _)
BinarySort(s, start) ==
    IF start > Len(s) THEN s
    ELSE Let(BinPos(s, s[start], 0, start - 1), LAMBDA l :
             BinarySort(SubSeq(s, 1, l) \o <<s[start]>> \o SubSeq(s, l + 1, start - 1)
                          \o SubSeq(s, start + 1, Len(s)),
                        start + 1))

SortBySimilarityDesc(s) ==
    IF Len(s) < 2 THEN s
    ELSE Let(Reverse(s), LAMBDA r :
         Let(KeyLt(r[2], r[1]), LAMBDA desc :
         Let(RunLen(r, 3, desc), LAMBDA n :
             Reverse(BinarySort(IF desc
                                THEN Reverse(SubSeq(r, 1, n)) \o SubSeq(r, n + 1, Len(r))
                                ELSE r,
                                n + 1)))))

(***************************************************************************)
(* Vector store: search                                                    *)
(***************************************************************************)
\* a scan that reads every row whatever the category
ScannedRowsUnfiltered(embs, docs, category) == embs

\* rows scanned: all rows, or the rows joined to a document of the category
ScannedRows(embs, docs, category) ==
    IF category # "" 
    THEN SelectSeq(embs, LAMBDA e : e.document_id \in DOMAIN docs
                                    /\ docs[e.document_id].category = category)
    ELSE embs

ScoredChunk(e, query_embedding) ==
    [id |-> e.id, document_id |-> e.document_id, chunk_text |-> e.chunk_text,
     embedding |-> e.embedding, chunk_index |-> e.chunk_index,
     similarity_score |-> Cosine(query_embedding, e.embedding)]

\* search_similar: [err, chunks]; np.dot raises on vectors of different
\* length, which the method reports as VectorSearchError
search_similar(embs, docs, query_embedding, top_k, category) ==
    Let(ScannedRows(embs, docs, category), LAMBDA rows :
        IF \E i \in 1..Len(rows) : Len(rows[i].embedding) # Len(query_embedding)
        THEN [err |-> "VectorSearchError", chunks |-> << >>]
        ELSE [err |-> "",
              chunks |-> Take(SortBySimilarityDesc(
                                  [i \in 1..Len(rows) |->
                                      ScoredChunk(rows[i], query_embedding)]),
                              top_k)])

(***************************************************************************)
(* Embedding encoder                                                       *)
(***************************************************************************)
\* vectors the encoder produces
EmbTable == << <<3, 4>>, <<4, 3>>, <<1, 0>>, <<-3, 4>>, <<0, 1>> >>

SymCode(c) == CASE c = "a" -> 0 [] c = "b" -> 1 [] c = "google" -> 2 [] OTHER -> 3

\* a deterministic digest of the text (stands for the model or for SHA-256)
Digest(t) == ((Len(t) + SymCode(t[1]) + 2 * SymCode(t[Len(t)])) % Len(EmbTable)) + 1

\* encode_text: [err, vec]
encode_text(text) ==
    IF text = << >> \/ Strip(text) = << >>
    THEN [err |-> "EmbeddingGenerationError", vec |-> << >>]
    ELSE [err |-> "", vec |-> EmbTable[Digest(Strip(text))]]

\* encode_batch: [err, vecs]
encode_batch(texts) ==
    IF texts = << >> THEN [err |-> "", vecs |-> << >>]
    ELSE Let(SelectSeq([i \in 1..Len(texts) |-> Strip(texts[i])], LAMBDA t : t # << >>),
             LAMBDA valid_texts :
             IF valid_texts = << >>
             THEN [err |-> "EmbeddingGenerationError", vecs |-> << >>]
             ELSE [err |-> "",
                   vecs |-> [i \in 1..Len(valid_texts) |-> encode_text(valid_texts[i]).vec]])

(***************************************************************************)
(* Inputs                                                                  *)
(***************************************************************************)
\* the predefined policies; the content of each is cut down to a few words
AllPolicies == <<
    [title |-> <<"Política", " ", "Diversidad">>, category |-> "diversidad",
     content |-> <<"\n", " ", "Google", " ", "empleados", " ", "contratación", "\n">>],
    [title |-> <<"Política", " ", "Trabajo">>, category |-> "trabajo_remoto",
     content |-> <<"\n", " ", "Google", " ", "ofrece", " ", "trabajo", "\n", " ">>],
    [title |-> <<"Beneficios">>, category |-> "beneficios",
     content |-> <<"\n", "Beneficios", " ", "seguro", "\n">>],
    [title |-> <<"Política", " ", "Desarrollo">>, category |-> "desarrollo",
     content |-> <<"\n", "Google", " ", "invierte", "\n">>],
    [title |-> <<"Código">>, category |-> "etica",
     content |-> <<"\n", "código", " ", "conducta", " ", "Google", "\n">>],
    [title |-> <<"Política", " ", "Compensación">>, category |-> "compensacion",
     content |-> <<"\n", "compensación", "\n">>],
    [title |-> <<"Política", " ", "Vacaciones">>, category |-> "vacaciones",
     content |-> <<"\n", "Política", " ", "vacaciones", " ", "ilimitadas", "\n">>] >>

PredefinedPolicies == SubSeq(AllPolicies, 1, Min(MaxPolicies, Len(AllPolicies)))

\* the preloaded data of the data loader, cut down to one policy and one
\* frequent question; their titles differ from those of the predefined policies
PreloadedData == <<
    [title |-> <<"Política", " ", "Beneficios", " ", "Google">>, category |-> "beneficios",
     content |-> <<"\n", "Beneficios", " ", "seguro", " ", "Google", "\n">>],
    [title |-> <<"FAQ", " ", "vacaciones">>, category |-> "vacaciones",
     content |-> <<"vacaciones", " ", "ilimitadas">>] >>

\* default chunk_size and overlap of split_text, in words
DefaultChunkSize == 500
DefaultOverlap == 50

\* a content of DefaultChunkSize + 1 words
LongContent == [i \in 1..(2 * DefaultChunkSize + 1) |-> IF i % 2 = 1 THEN "a" ELSE " "]

Titles == { << >>, <<"b">> }
Contents == { << >>, <<" ">>, <<"A", " ", " ", "b">>, LongContent }
Categories == { "", " vacaciones" }

\* str.strip on the category strings of the model
StripId(c) == CASE c = " vacaciones" -> "vacaciones" [] c = " " -> "" [] OTHER -> c

\* split_text(content) with the default sizes, tabulated for the contents
ChunksOf == [c \in Contents \cup {PredefinedPolicies[i].content : i \in 1..Len(PredefinedPolicies)}
                     \cup {PreloadedData[i].content : i \in 1..Len(PreloadedData)}
                     \cup {Strip(PreloadedData[i].content) : i \in 1..Len(PreloadedData)}
                |-> split_text(c, DefaultChunkSize, DefaultOverlap)]

StrippedOf == [c \in DOMAIN ChunksOf |-> Strip(c)]

(***************************************************************************)
(* State                                                                   *)
(***************************************************************************)
VARIABLES
    documents,   \* table documents: id -> row
    embeddings,  \* table embeddings: rows in rowid order
    doc_seq,     \* AUTOINCREMENT counter of documents
    emb_seq,     \* AUTOINCREMENT counter of embeddings
    service,     \* the RAGServiceImpl: constructed, openai_client configured
    del,         \* the delete_document call in progress
    qry,         \* the query in progress
    out,         \* what the call completed by the last step returned or raised
    adds,        \* add_document calls made so far
    deletes      \* delete_document calls made so far

vars == <<documents, embeddings, doc_seq, emb_seq, service, del, qry, out, adds, deletes>>

NoOut == [op |-> "none"]
DelIdle == [pc |-> "idle"]
QryIdle == [pc |-> "idle"]

(***************************************************************************)
(* Repositories                                                            *)
(***************************************************************************)
\* a DELETE that lost its WHERE clause
DocRepoDeleteEveryRow(docs, document_id) ==
    [documents |-> << >>, deleted |-> document_id \in DOMAIN docs]

\* SQLiteDocumentRepository.delete_document: [documents, deleted]
DocRepoDelete(docs, document_id) ==
    [documents |-> [i \in DOMAIN docs \ {document_id} |-> docs[i]],
     deleted   |-> document_id \in DOMAIN docs]

\* a delete that leaves the chunks of the document in place
DeleteEmbeddingsSkipped(embs, document_id) == embs

\* SQLiteVectorRepository.delete_embeddings_by_document
DeleteEmbeddingsByDocument(embs, document_id) ==
    SelectSeq(embs, LAMBDA e : e.document_id # document_id)

get_document_count(docs) == Cardinality(DOMAIN docs)

(***************************************************************************)
(* RAGServiceImpl.add_document                                             *)
(***************************************************************************)
\* the rows saved for the chunks of a document, the first k of them
ChunkRows(document_id, chunks, vecs, first_id, k) ==
    [i \in 1..k |->
        [id |-> first_id + i - 1, document_id |-> document_id,
         chunk_text |-> chunks[i], embedding |-> vecs[i], chunk_index |-> i - 1]]

\* a check of the title alone
AddRejectsTitleOnly(title, content, category) == title = << >>

\* not title or not content or not category
AddRejects(title, content, category) ==
    title = << >> \/ content = << >> \/ category = ""

SaveFailIndex(fail) == CASE fail = "save0" -> 0 [] fail = "save1" -> 1 [] OTHER -> -1

\* add_document on (docs, embs, dseq, eseq); fail names the call that raises:
\* "none", "doc" (save_document), "embed" (encode_batch) or "save0", "save1"
\* (the save_embedding call of that 0-based index).
\* Result: [err, id, documents, embeddings, doc_seq, emb_seq]
add_document(docs, embs, dseq, eseq, title, content, category, metadata, fail) ==
    IF AddRejects(title, content, category)
    THEN [err |-> "InvalidQueryError", id |-> 0, documents |-> docs, embeddings |-> embs,
          doc_seq |-> dseq, emb_seq |-> eseq]
    ELSE IF fail = "doc"
    THEN [err |-> "DocumentNotFoundError", id |-> 0, documents |-> docs,
          embeddings |-> embs, doc_seq |-> dseq, emb_seq |-> eseq]
    ELSE
      Let(dseq + 1, LAMBDA document_id :
      Let([i \in DOMAIN docs \cup {document_id} |->
              IF i = document_id
              THEN [title |-> Strip(title), content |-> StrippedOf[content],
                    category |-> StripId(category), metadata |-> metadata]
              ELSE docs[i]], LAMBDA docs2 :
      Let(ChunksOf[content], LAMBDA chunks :
      Let(IF fail = "embed" THEN [err |-> "EmbeddingGenerationError", vecs |-> << >>]
          ELSE encode_batch(chunks), LAMBDA enc :
      Let(Min(Len(chunks), Len(enc.vecs)), LAMBDA n :
      Let(IF SaveFailIndex(fail) \in 0..(n - 1) THEN SaveFailIndex(fail) ELSE n,
          LAMBDA saved :
          IF enc.err # ""
          THEN [err |-> enc.err, id |-> 0, documents |-> docs2, embeddings |-> embs,
                doc_seq |-> document_id, emb_seq |-> eseq]
          ELSE [err |-> IF saved < n THEN "VectorSearchError" ELSE "",
                id |-> IF saved < n THEN 0 ELSE document_id,
                documents |-> docs2,
                embeddings |-> embs \o ChunkRows(document_id, chunks, enc.vecs,
                                                 eseq + 1, saved),
                doc_seq |-> document_id, emb_seq |-> eseq + saved]))))))

\* RAGServiceAdapter.add_document: rejects a blank title, content or category,
\* then calls add_document with the three stripped
adapter_add_document(docs, embs, dseq, eseq, title, content, category, metadata, fail) ==
    IF \/ title = << >> \/ Strip(title) = << >>
       \/ content = << >> \/ StrippedOf[content] = << >>
       \/ category = "" \/ StripId(category) = ""
    THEN [err |-> "InvalidQueryError", id |-> 0, documents |-> docs, embeddings |-> embs,
          doc_seq |-> dseq, emb_seq |-> eseq]
    ELSE add_document(docs, embs, dseq, eseq, Strip(title), StrippedOf[content],
                      StripId(category), metadata, fail)

\* load_predefined_policies: adds every policy, a failing one is skipped
RECURSIVE LoadPolicies(_, _, _, _, _)
LoadPolicies(docs, embs, dseq, eseq, policies) ==
    IF policies = << >>
    THEN [documents |-> docs, embeddings |-> embs, doc_seq |-> dseq, emb_seq |-> eseq]
    ELSE Let(add_document(docs, embs, dseq, eseq, policies[1].title, policies[1].content,
                          policies[1].category, [source |-> "predefined"], "none"),
             LAMBDA r : LoadPolicies(r.documents, r.embeddings, r.doc_seq, r.emb_seq,
                                     Tail(policies)))

(***************************************************************************)
(* Actions: construction, add, delete                                      *)
(***************************************************************************)
Init ==
    /\ documents = << >>
    /\ embeddings = << >>
    /\ doc_seq = 0
    /\ emb_seq = 0
    /\ service = [constructed |-> FALSE, openai_client |-> FALSE]
    /\ del = DelIdle
    /\ qry = QryIdle
    /\ out = NoOut
    /\ adds = 0
    /\ deletes = 0

\* RAGServiceImpl.__init__: loads the predefined policies into an empty store
Construct(client) ==
    /\ ~service.constructed
    /\ \E r \in {IF get_document_count(documents) = 0
                 THEN LoadPolicies(documents, embeddings, doc_seq, emb_seq,
                                   PredefinedPolicies)
                 ELSE [documents |-> documents, embeddings |-> embeddings,
                       doc_seq |-> doc_seq, emb_seq |-> emb_seq]} :
           /\ documents' = r.documents
           /\ embeddings' = r.embeddings
           /\ doc_seq' = r.doc_seq
           /\ emb_seq' = r.emb_seq
    /\ service' = [constructed |-> TRUE, openai_client |-> client]
    /\ out' = [op |-> "construct"]
    /\ UNCHANGED <<del, qry, adds, deletes>>

AddFails == {"none", "doc", "embed", "save0", "save1"}

\* the callers of add_document: RAGServiceImpl itself, RAGServiceAdapter over it
AddVias == {"impl", "adapter"}

AddDocument(via, title, content, category, fail) ==
    /\ service.constructed
    /\ del.pc = "idle"
    /\ qry.pc = "idle"
    /\ adds < MaxAdds
    /\ fail # "none" =>
          /\ title # << >> /\ content # << >> /\ category # ""
          /\ via = "adapter" => (Strip(title) # << >> /\ StrippedOf[content] # << >>
                                   /\ StripId(category) # "")
          /\ SaveFailIndex(fail) < Len(ChunksOf[content])
    /\ \E r \in {IF via = "adapter"
                 THEN adapter_add_document(documents, embeddings, doc_seq, emb_seq, title,
                                           content, category, [source |-> "client"], fail)
                 ELSE add_document(documents, embeddings, doc_seq, emb_seq, title,
                                   content, category, [source |-> "client"], fail)} :
           /\ documents' = r.documents
           /\ embeddings' = r.embeddings
           /\ doc_seq' = r.doc_seq
           /\ emb_seq' = r.emb_seq
           /\ out' = [op |-> "add_document", via |-> via, title |-> title,
                      content |-> content, category |-> category, fail |-> fail,
                      err |-> r.err, id |-> r.id]
    /\ adds' = adds + 1
    /\ UNCHANGED <<service, del, qry, deletes>>

\* the document ids a delete is tried on: stored, never stored, not positive
DeleteIds == 0..(MaxPolicies + MaxAdds + 1)

\* the callers of delete_document: RAGServiceImpl itself, RAGServiceAdapter
\* over it, MainRAGService over the adapter
DeleteVias == {"impl", "adapter", "main"}

\* callers that hand on what RAGServiceImpl.delete_document returned, false
\* included
DeleteOutcomeHandedOn(via, document_id, err, success) ==
    [err |-> err, success |-> err = "" /\ success]

\* what the caller named by via gets when RAGServiceImpl.delete_document
\* raised err ("" if it returned) or returned success
DeleteOutcome(via, document_id, err, success) ==
    LET impl    == [err |-> err, success |-> err = "" /\ success]
        adapter == IF impl.err # "" THEN impl
                   ELSE IF impl.success THEN impl
                   ELSE [err |-> "DocumentNotFoundError", success |-> FALSE]
        main    == IF adapter.err = "DocumentNotFoundError" THEN adapter
                   ELSE IF adapter.err # ""
                        THEN [err |-> "RAGDomainException", success |-> FALSE]
                   ELSE IF adapter.success THEN adapter
                   ELSE [err |-> "DocumentNotFoundError", success |-> FALSE]
    IN  CASE via = "impl" -> impl [] via = "adapter" -> adapter [] OTHER -> main

DeleteOut(via, document_id, err, success) ==
    Let(DeleteOutcome(via, document_id, err, success), LAMBDA o :
        [op |-> "delete_document", via |-> via, id |-> document_id,
         err |-> o.err, success |-> o.success])

\* a delete_document that removes the document row in its first step
DeleteBeginDocumentFirst(via, document_id, fail) ==
    /\ service.constructed
    /\ del.pc = "idle"
    /\ deletes < MaxDeletes
    /\ ~fail /\ via = "impl"
    /\ deletes' = deletes + 1
    /\ documents' = DocRepoDelete(documents, document_id).documents
    /\ del' = [pc |-> "doc", via |-> via, id |-> document_id]
    /\ out' = NoOut
    /\ UNCHANGED <<embeddings, doc_seq, emb_seq, service, qry, adds>>

\* delete_document up to and including delete_embeddings_by_document;
\* the adapter rejects an id that is not positive before calling the service
DeleteBegin(via, document_id, fail) ==
    /\ service.constructed
    /\ del.pc = "idle"
    /\ deletes < MaxDeletes
    /\ fail => (via = "impl" \/ document_id > 0)
    /\ deletes' = deletes + 1
    /\ IF via # "impl" /\ document_id <= 0
       THEN /\ out' = [op |-> "delete_document", via |-> via, id |-> document_id,
                       err |-> IF via = "adapter" THEN "InvalidQueryError"
                               ELSE "RAGDomainException",
                       success |-> FALSE]
            /\ UNCHANGED <<embeddings, del>>
       ELSE IF fail
       THEN /\ out' = DeleteOut(via, document_id, "DocumentNotFoundError", FALSE)
            /\ UNCHANGED <<embeddings, del>>
       ELSE /\ embeddings' = DeleteEmbeddingsByDocument(embeddings, document_id)
            /\ del' = [pc |-> "doc", via |-> via, id |-> document_id]
            /\ out' = NoOut
    /\ UNCHANGED <<documents, doc_seq, emb_seq, service, qry, adds>>

\* the rest of delete_document: document_repo.delete_document and the return
DeleteFinish(fail) ==
    /\ del.pc = "doc"
    /\ del' = DelIdle
    /\ IF fail
       THEN /\ out' = DeleteOut(del.via, del.id, "DocumentNotFoundError", FALSE)
            /\ UNCHANGED documents
       ELSE \E r \in {DocRepoDelete(documents, del.id)} :
                /\ documents' = r.documents
                /\ out' = DeleteOut(del.via, del.id, "", r.deleted)
    /\ UNCHANGED <<embeddings, doc_seq, emb_seq, service, qry, adds, deletes>>

(***************************************************************************)
(* RAGServiceImpl.search_documents and generate_response                   *)
(***************************************************************************)
One == Rat(1, 1)

DocumentOf(docs, document_id) ==
    [id |-> document_id, title |-> docs[document_id].title,
     content |-> docs[document_id].content, category |-> docs[document_id].category,
     metadata |-> docs[document_id].metadata]

\* a loop that ends at the first chunk whose parent is missing
RECURSIVE HydrateUntilMissing(_, _)
HydrateUntilMissing(similar_chunks, docs) ==
    IF similar_chunks = << >> \/ similar_chunks[1].document_id \notin DOMAIN docs
    THEN << >>
    ELSE <<[document |-> DocumentOf(docs, similar_chunks[1].document_id),
            chunk |-> similar_chunks[1],
            relevance_score |-> similar_chunks[1].similarity_score]>>
         \o HydrateUntilMissing(Tail(similar_chunks), docs)

\* the loop of search_documents over the chunks the vector search returned
RECURSIVE Hydrate(_, _)
Hydrate(similar_chunks, docs) ==
    IF similar_chunks = << >> THEN << >>
    ELSE (IF similar_chunks[1].document_id \in DOMAIN docs
          THEN <<[document |-> DocumentOf(docs, similar_chunks[1].document_id),
                  chunk |-> similar_chunks[1],
                  relevance_score |-> similar_chunks[1].similarity_score]>>
          ELSE << >>)
         \o Hydrate(Tail(similar_chunks), docs)

\* search_documents up to the return of search_similar: [err, chunks]
SearchBegin(embs, docs, query, top_k, category) ==
    IF query = << >> \/ Strip(query) = << >>
    THEN [err |-> "InvalidQueryError", chunks |-> << >>]
    ELSE Let(encode_text(Strip(query)), LAMBDA enc :
             IF enc.err # "" THEN [err |-> enc.err, chunks |-> << >>]
             ELSE search_similar(embs, docs, enc.vec, top_k, category))

NoAnswer == [kind |-> "none", title |-> << >>, body |-> << >>, ellipsis |-> FALSE, more |-> 0]

\* _generate_template_response
TemplateResponse(results) ==
    IF results = << >> THEN [NoAnswer EXCEPT !.kind = "template_empty"]
    ELSE [kind |-> "template", title |-> results[1].document.title,
          body |-> Take(results[1].chunk.chunk_text, 400),
          ellipsis |-> Len(results[1].chunk.chunk_text) > 400,
          more |-> Len(results) - 1]

Scores(results) == [i \in 1..Len(results) |-> results[i].relevance_score]

\* number of results searched by generate_response
GenerateTopK == 3

NoResponse == [answer |-> NoAnswer, sources |-> << >>, confidence |-> Zero, query |-> << >>]

\* generate_response after its search_documents call returned search_results;
\* gen is what the generator call does: "ok", "AIServiceError", "OtherError".
\* Result: [err, resp]
GenerateCompose(search_results, query, use_ai, openai_client, gen) ==
    IF search_results = << >>
    THEN [err |-> "",
          resp |-> [answer |-> [NoAnswer EXCEPT !.kind = "no_results"],
                    sources |-> << >>, confidence |-> Zero, query |-> query]]
    ELSE IF use_ai /\ openai_client /\ gen = "OtherError"
    THEN [err |-> "RAGDomainException", resp |-> NoResponse]
    ELSE [err |-> "",
          resp |-> [answer |-> IF use_ai /\ openai_client /\ gen = "ok"
                               THEN [NoAnswer EXCEPT !.kind = "generated"]
                               ELSE TemplateResponse(search_results),
                    sources |-> search_results,
                    confidence |-> FDivInt(FSum(Scores(search_results)),
                                           Len(search_results)),
                    query |-> query]]

(***************************************************************************)
(* DepartmentContextServiceImpl                                            *)
(***************************************************************************)
Departments == {"rrhh", "it", "legal", "finanzas", "marketing", "ventas",
                "operaciones", "general"}

department_categories(d) ==
    CASE d = "rrhh" -> {"beneficios", "vacaciones", "desarrollo", "diversidad",
                        "compensacion", "etica"}
      [] d = "it" -> {"trabajo_remoto", "desarrollo", "innovacion", "tecnologia"}
      [] d = "legal" -> {"etica", "cumplimiento", "politicas", "contratos"}
      [] d = "finanzas" -> {"compensacion", "beneficios", "presupuesto"}
      [] d = "marketing" -> {"comunicacion", "branding", "eventos"}
      [] d = "ventas" -> {"incentivos", "comisiones", "objetivos"}
      [] d = "operaciones" -> {"procesos", "calidad", "eficiencia"}
      [] OTHER -> {}

department_keywords(d) ==
    CASE d = "rrhh" -> {"empleado", "personal", "contratación", "beneficio", "salario",
                        "vacaciones"}
      [] d = "it" -> {"tecnología", "sistema", "software", "desarrollo", "código"}
      [] d = "legal" -> {"legal", "contrato", "cumplimiento", "regulación", "ley"}
      [] d = "finanzas" -> {"financiero", "presupuesto", "costo", "inversión", "gasto"}
      [] d = "marketing" -> {"marketing", "publicidad", "campaña", "marca", "cliente"}
      [] d = "ventas" -> {"venta", "cliente", "objetivo", "comisión", "meta"}
      [] d = "operaciones" -> {"proceso", "operación", "calidad", "eficiencia",
                               "producción"}
      [] OTHER -> {}

\* str.lower on the department strings of the model
LowerId(d) ==
    CASE d = "IT" -> "it" [] d = "RRHH" -> "rrhh" [] d = "General" -> "general"
      [] d = "GENERAL" -> "general" [] OTHER -> d

\* keyword in symbol: the symbol is the keyword or a word that contains it
SymContains(sym, keyword) ==
    \/ sym = keyword
    \/ <<sym, keyword>> \in {<<"empleados", "empleado">>, <<"beneficios", "beneficio">>}

\* any(keyword in text for keyword in keywords)
HasKeyword(text, keywords) ==
    \E i \in 1..Len(text) : \E k \in keywords : SymContains(text[i], k)

\* a loop that keeps the score of a result kept for a keyword
RECURSIVE FilterLoopKeepsScore(_, _, _)
FilterLoopKeepsScore(results, relevant_categories, keywords) ==
    IF results = << >> THEN << >>
    ELSE (IF (relevant_categories # {}
                /\ results[1].document.category \in relevant_categories)
               \/ HasKeyword(Lower(results[1].chunk.chunk_text \o <<" ">>
                                     \o results[1].document.title), keywords)
          THEN <<results[1]>> ELSE << >>)
         \o FilterLoopKeepsScore(Tail(results), relevant_categories, keywords)

\* a filter that puts the results of the department's categories first
FilterLoopCategoryFirst(results, relevant_categories, keywords) ==
    SelectSeq(results, LAMBDA r : r.document.category \in relevant_categories)
    \o Let(SelectSeq(results, LAMBDA r :
                r.document.category \notin relevant_categories
                /\ HasKeyword(Lower(r.chunk.chunk_text \o <<" ">> \o r.document.title),
                              keywords)),
           LAMBDA kept : [i \in 1..Len(kept) |->
                             [kept[i] EXCEPT !.relevance_score = FMul(@, Rat(4, 5))]])

RECURSIVE FilterLoop(_, _, _)
FilterLoop(results, relevant_categories, keywords) ==
    IF results = << >> THEN << >>
    ELSE Let(results[1], LAMBDA doc :
             (IF relevant_categories # {} /\ doc.document.category \in relevant_categories
              THEN <<doc>>
              ELSE IF HasKeyword(Lower(doc.chunk.chunk_text \o <<" ">>
                                         \o doc.document.title), keywords)
              THEN <<[doc EXCEPT !.relevance_score = FMul(@, Rat(4, 5))]>>
              ELSE << >>)
             \o FilterLoop(Tail(results), relevant_categories, keywords))

\* a filter whose sentinel is compared as written, not lowered
filter_by_department_exact_sentinel(results, department) ==
    IF department = "" \/ department = "general" THEN results
    ELSE FilterLoop(results, department_categories(LowerId(department)),
                    department_keywords(LowerId(department)))

filter_by_department(results, department) ==
    IF department = "" \/ LowerId(department) = "general" THEN results
    ELSE FilterLoop(results, department_categories(LowerId(department)),
                    department_keywords(LowerId(department)))

\* the list passed to filter_by_department as the call leaves it: the loop
\* multiplies relevance_score in place, on the objects of the caller's list
FilterLeavesInput(results, department) ==
    IF department = "" \/ LowerId(department) = "general" THEN results
    ELSE [i \in 1..Len(results) |->
             IF department_categories(LowerId(department)) # {}
                  /\ results[i].document.category
                         \in department_categories(LowerId(department))
             THEN results[i]
             ELSE IF HasKeyword(Lower(results[i].chunk.chunk_text \o <<" ">>
                                        \o results[i].document.title),
                                department_keywords(LowerId(department)))
             THEN [results[i] EXCEPT !.relevance_score = FMul(@, Rat(4, 5))]
             ELSE results[i]]

(***************************************************************************)
(* AskQuestionUseCaseImpl                                                  *)
(***************************************************************************)
MaxQuestionLen == 1000
MinTopK == 1
MaxTopK == 20

\* a validation that leaves the department unchecked
validate_request_any_department(question, top_k, department) ==
    IF question = << >> \/ Strip(question) = << >> THEN "InvalidQueryError"
    ELSE IF Len(question) > MaxQuestionLen THEN "InvalidQueryError"
    ELSE IF top_k < MinTopK \/ top_k > MaxTopK THEN "InvalidQueryError"
    ELSE ""

\* _validate_request: "" if the request passes, else the error raised
validate_request(question, top_k, department) ==
    IF question = << >> \/ Strip(question) = << >> THEN "InvalidQueryError"
    ELSE IF Len(question) > MaxQuestionLen THEN "InvalidQueryError"
    ELSE IF top_k < MinTopK \/ top_k > MaxTopK THEN "InvalidQueryError"
    ELSE IF department # "" /\ LowerId(department) \notin Departments
         THEN "InvalidQueryError"
    ELSE ""

\* AskQuestionResponse(...): the field confidence is declared ge=0.0, le=1.0;
\* a value outside fails validation, which execute reports as RAGDomainException
convert_to_response_dto(resp, department) ==
    IF FGe(resp.confidence, Zero) /\ FGe(One, resp.confidence)
    THEN [err |-> "", resp |-> resp]
    ELSE [err |-> "RAGDomainException", resp |-> NoResponse]

(***************************************************************************)
(* IntegratedRAGService.ask_question                                       *)
(***************************************************************************)
MockMaxQuestionLen == 500
MockMaxContextLen == 2000

RECURSIVE ContextLen(_)
\* len of the context string built from the results: three lines per result
ContextLen(results) ==
    IF results = << >> THEN 0
    ELSE (11 + Len(results[1].document.title)) + 1
         + (11 + Len(results[1].chunk.chunk_text)) + 1 + 3
         + (IF Len(results) > 1 THEN 1 + ContextLen(Tail(results)) ELSE 0)

\* OpenAIMockClient._validate_rag_input
MockRejects(question, results) ==
    \/ Len(question) > MockMaxQuestionLen
    \/ ContextLen(Take(results, 3)) > MockMaxContextLen

\* _generate_basic_response
BasicResponse(results) ==
    IF results = << >> THEN [NoAnswer EXCEPT !.kind = "basic_empty"]
    ELSE [NoAnswer EXCEPT !.kind = "basic", !.more = Len(results)]

\* ask_question after search_documents returned search_results
IntegratedCompose(search_results, question, use_ai, gen) ==
    [answer |-> IF search_results # << >> /\ use_ai
                THEN IF gen = "ok" /\ ~MockRejects(question, search_results)
                     THEN [NoAnswer EXCEPT !.kind = "generated"]
                     ELSE BasicResponse(search_results)
                ELSE BasicResponse(search_results),
     sources |-> search_results,
     confidence |-> IF search_results # << >> THEN Rat(4, 5) ELSE Rat(1, 5),
     query |-> question]

(***************************************************************************)
(* Actions: queries.  A query reads the store twice or more (the vector    *)
(* search, then the lookups of the parent documents); a delete may run     *)
(* between two of its reads.                                               *)
(***************************************************************************)
\* a text of n symbols "x"
Filler(n) == [i \in 1..n |-> "x"]

Questions == { << >>, <<" ">>, <<" ", "a">> }
\* questions of generate_response: one more, whose embedding has a negative
\* cosine with a stored chunk
GenerateQuestions == Questions \cup { <<"a", "a">> }
ExecuteQuestions == { <<" ">>, <<" ", "a">>, Filler(MaxQuestionLen),
                      Filler(MaxQuestionLen + 1) }
AskQuestions == { <<" ">>, <<" ", "a">>, Filler(MockMaxQuestionLen + 1) }
SearchTopKs == {1, 3}
SearchCategories == {"", "diversidad"}
ExecuteTopKs == {0, 2, MaxTopK + 1}
RequestDepartments == {"", "RRHH", "it", "xx"}
AskTopKs == {0, 2}
GenOutcomes == {"ok", "AIServiceError", "OtherError"}

Request(question, top_k, category, department, use_ai) ==
    [question |-> question, top_k |-> top_k, category |-> category,
     department |-> department, use_ai |-> use_ai]

\* what a query returned or raised: the response or the error, with the chunks
\* its last vector search returned, the results it hydrated (execute: hydrated
\* and filtered) and what its generator call did ("none": not called)
QueryOut(entry, req, err, resp, chunks, results, gen) ==
    [op |-> entry, req |-> req, err |-> err, resp |-> resp, chunks |-> chunks,
     results |-> results, gen |-> gen]

InFlight(pc, entry, req, chunks, results) ==
    [pc |-> pc, entry |-> entry, req |-> req, chunks |-> chunks, results |-> results]

QueryFrame == UNCHANGED <<documents, embeddings, doc_seq, emb_seq, service, del,
                          adds, deletes>>

\* RAGServiceImpl.search_documents, up to the return of search_similar
SearchDocumentsBegin(query, top_k, category) ==
    /\ service.constructed /\ qry.pc = "idle"
    /\ \E req \in {Request(query, top_k, category, "", FALSE)},
          r \in {SearchBegin(embeddings, documents, query, top_k, category)} :
           IF r.err # ""
           THEN /\ out' = QueryOut("search_documents", req, r.err, NoResponse, << >>, << >>,
                                   "none")
                /\ qry' = QryIdle
           ELSE /\ out' = NoOut
                /\ qry' = InFlight("hydrate", "search_documents", req, r.chunks, << >>)
    /\ QueryFrame

\* RAGServiceImpl.search_documents, the lookups of the parent documents
SearchDocumentsFinish ==
    /\ qry.pc = "hydrate" /\ qry.entry = "search_documents"
    /\ out' = QueryOut("search_documents", qry.req, "", NoResponse, qry.chunks,
                       Hydrate(qry.chunks, documents), "none")
    /\ qry' = QryIdle
    /\ QueryFrame

\* RAGServiceImpl.generate_response, up to the return of search_similar
GenerateResponseBegin(query, use_ai) ==
    /\ service.constructed /\ qry.pc = "idle"
    /\ \E req \in {Request(query, GenerateTopK, "", "", use_ai)},
          r \in {SearchBegin(embeddings, documents, query, GenerateTopK, "")} :
           IF r.err # ""
           THEN /\ out' = QueryOut("generate_response", req, r.err, NoResponse, << >>,
                                   << >>, "none")
                /\ qry' = QryIdle
           ELSE /\ out' = NoOut
                /\ qry' = InFlight("hydrate", "generate_response", req, r.chunks, << >>)
    /\ QueryFrame

\* the generator is called by generate_response on these results
GeneratorCalled(results, use_ai) ==
    results # << >> /\ use_ai /\ service.openai_client

\* RAGServiceImpl.generate_response, from the document lookups to the return
GenerateResponseFinish(gen) ==
    /\ qry.pc = "hydrate" /\ qry.entry = "generate_response"
    /\ \E results \in {Hydrate(qry.chunks, documents)} :
         \E r \in {GenerateCompose(results, qry.req.question, qry.req.use_ai,
                                   service.openai_client, gen)} :
           /\ gen # "ok" => GeneratorCalled(results, qry.req.use_ai)
           /\ out' = QueryOut("generate_response", qry.req, r.err, r.resp, qry.chunks,
                              results,
                              IF GeneratorCalled(results, qry.req.use_ai) THEN gen
                              ELSE "none")
    /\ qry' = QryIdle
    /\ QueryFrame

\* AskQuestionUseCaseImpl.execute: _validate_request, then _search_documents up
\* to the return of search_similar
ExecuteBegin(question, top_k, department, use_ai) ==
    /\ service.constructed /\ qry.pc = "idle"
    /\ \E req \in {Request(question, top_k, "", department, use_ai)},
          v \in {validate_request(question, top_k, department)} :
           IF v # ""
           THEN /\ out' = QueryOut("execute", req, v, NoResponse, << >>, << >>, "none")
                /\ qry' = QryIdle
           ELSE \E r \in {SearchBegin(embeddings, documents, question, top_k, "")} :
                IF r.err # ""
                THEN /\ out' = QueryOut("execute", req, "VectorSearchError", NoResponse,
                                        << >>, << >>, "none")
                     /\ qry' = QryIdle
                ELSE /\ out' = NoOut
                     /\ qry' = InFlight("hydrate", "execute", req, r.chunks, << >>)
    /\ QueryFrame

\* execute: the document lookups of _search_documents, the department filter
\* and the no-result branch of _generate_response
ExecuteFilter ==
    /\ qry.pc = "hydrate" /\ qry.entry = "execute"
    /\ \E filtered \in {IF qry.req.department # ""
                        THEN filter_by_department(Hydrate(qry.chunks, documents),
                                                  qry.req.department)
                        ELSE Hydrate(qry.chunks, documents)} :
           IF filtered = << >>
           THEN \E dto \in {convert_to_response_dto(
                                [answer |-> [NoAnswer EXCEPT !.kind = "no_results"],
                                 sources |-> << >>, confidence |-> Zero,
                                 query |-> qry.req.question], qry.req.department)} :
                /\ out' = QueryOut("execute", qry.req, dto.err, dto.resp, qry.chunks,
                                   filtered, "none")
                /\ qry' = QryIdle
           ELSE /\ out' = NoOut
                /\ qry' = InFlight("search2", "execute", qry.req, << >>, filtered)
    /\ QueryFrame

\* execute: rag_service.generate_response, up to the return of search_similar;
\* _generate_response turns every error into AIServiceError
ExecuteGenerate ==
    /\ qry.pc = "search2" /\ qry.entry = "execute"
    /\ \E r \in {SearchBegin(embeddings, documents, qry.req.question, GenerateTopK, "")} :
           IF r.err # ""
           THEN /\ out' = QueryOut("execute", qry.req, "AIServiceError", NoResponse,
                                   << >>, qry.results, "none")
                /\ qry' = QryIdle
           ELSE /\ out' = NoOut
                /\ qry' = InFlight("hydrate2", "execute", qry.req, r.chunks, qry.results)
    /\ QueryFrame

\* execute: the rest of generate_response and _convert_to_response_dto
ExecuteFinish(gen) ==
    /\ qry.pc = "hydrate2" /\ qry.entry = "execute"
    /\ \E results \in {Hydrate(qry.chunks, documents)} :
         \E r \in {GenerateCompose(results, qry.req.question, qry.req.use_ai,
                                   service.openai_client, gen)} :
          \E dto \in {convert_to_response_dto(r.resp, qry.req.department)} :
           /\ gen # "ok" => GeneratorCalled(results, qry.req.use_ai)
           /\ out' = QueryOut("execute", qry.req,
                              IF r.err # "" THEN "AIServiceError" ELSE dto.err,
                              IF r.err # "" THEN NoResponse ELSE dto.resp,
                              qry.chunks, qry.results,
                              IF GeneratorCalled(results, qry.req.use_ai) THEN gen
                              ELSE "none")
    /\ qry' = QryIdle
    /\ QueryFrame

\* IntegratedRAGService.ask_question, up to the return of search_similar;
\* every error raised inside is reported as RAGDomainException
AskQuestionBegin(question, top_k, use_ai) ==
    /\ service.constructed /\ qry.pc = "idle"
    /\ \E req \in {Request(question, top_k, "", "", use_ai)} :
           IF question = << >> \/ Strip(question) = << >>
           THEN /\ out' = QueryOut("ask_question", req, "RAGDomainException",
                                   NoResponse, << >>, << >>, "none")
                /\ qry' = QryIdle
           ELSE \E r \in {SearchBegin(embeddings, documents, Strip(question), top_k, "")} :
                IF r.err # ""
                THEN /\ out' = QueryOut("ask_question", req, "RAGDomainException",
                                        NoResponse, << >>, << >>, "none")
                     /\ qry' = QryIdle
                ELSE /\ out' = NoOut
                     /\ qry' = InFlight("hydrate", "ask_question", req, r.chunks, << >>)
    /\ QueryFrame

\* IntegratedRAGService.ask_question, from the document lookups to the return
AskQuestionFinish(gen) ==
    /\ qry.pc = "hydrate" /\ qry.entry = "ask_question"
    /\ \E results \in {Hydrate(qry.chunks, documents)} :
           /\ gen # "ok" => (results # << >> /\ qry.req.use_ai)
           /\ out' = QueryOut("ask_question", qry.req, "",
                              IntegratedCompose(results, qry.req.question,
                                                qry.req.use_ai, gen),
                              qry.chunks, results,
                              IF results # << >> /\ qry.req.use_ai THEN gen ELSE "none")
    /\ qry' = QryIdle
    /\ QueryFrame

\* the store's life: construction, additions, deletions
Next ==
    \/ \E client \in BOOLEAN : Construct(client)
    \/ \E via \in AddVias, t \in Titles, c \in Contents, g \in Categories,
          f \in AddFails :
           AddDocument(via, t, c, g, f)
    \/ \E via \in DeleteVias, id \in DeleteIds, f \in BOOLEAN : DeleteBegin(via, id, f)
    \/ \E f \in BOOLEAN : DeleteFinish(f)

Spec == Init /\ [][Next]_vars

\* a constructed service whose store holds the predefined policies and at most
\* one document added by a client
InitQuery ==
    \E client \in BOOLEAN, c \in {<< >>, LongContent} :
      \E p \in {LoadPolicies(<< >>, << >>, 0, 0, PredefinedPolicies)} :
        \E r \in {IF c = << >> THEN p
                  ELSE add_document(p.documents, p.embeddings, p.doc_seq, p.emb_seq,
                                    <<"b">>, c, " vacaciones", [source |-> "client"],
                                    "none")} :
            /\ documents = r.documents
            /\ embeddings = r.embeddings
            /\ doc_seq = r.doc_seq
            /\ emb_seq = r.emb_seq
            /\ service = [constructed |-> TRUE, openai_client |-> client]
            /\ del = DelIdle
            /\ qry = QryIdle
            /\ out = NoOut
            /\ adds = IF c = << >> THEN 0 ELSE 1
            /\ deletes = 0

\* queries, and the deletions that may run between two reads of a query
NextQuery ==
    \/ \E id \in DeleteIds : DeleteBegin("impl", id, FALSE)
    \/ DeleteFinish(FALSE)
    \/ \E q \in Questions, k \in SearchTopKs, c \in SearchCategories :
           SearchDocumentsBegin(q, k, c)
    \/ SearchDocumentsFinish
    \/ \E q \in GenerateQuestions, ai \in BOOLEAN : GenerateResponseBegin(q, ai)
    \/ \E g \in GenOutcomes : GenerateResponseFinish(g)
    \/ \E q \in ExecuteQuestions, k \in ExecuteTopKs, d \in RequestDepartments :
           ExecuteBegin(q, k, d, TRUE)
    \/ ExecuteFilter
    \/ ExecuteGenerate
    \/ \E g \in GenOutcomes : ExecuteFinish(g)
    \/ \E q \in AskQuestions, k \in AskTopKs, ai \in BOOLEAN : AskQuestionBegin(q, k, ai)
    \/ \E g \in GenOutcomes : AskQuestionFinish(g)

SpecQuery == InitQuery /\ [][NextQuery]_vars


(***************************************************************************)
(* The vector search alone, on stores of at most MaxRows rows              *)
(***************************************************************************)
\* the query vectors tried: the vectors of the encoder and the zero vector
QueryVectors == {EmbTable[i] : i \in 1..Len(EmbTable)} \cup {<<0, 0>>}

\* the vectors a stored row may hold: save_embedding stores what it is given
StoredVectors == <<EmbTable[1], EmbTable[2], EmbTable[4], <<0, 0>> >>

\* two documents of different categories; row i is a chunk of document 1 (odd
\* i) or 2 (even i) and holds any of the stored vectors
InitSearch ==
    \E n \in 0..MaxRows : \E vs \in [1..n -> 1..Len(StoredVectors)] :
        /\ documents = [d \in 1..2 |->
                           [title |-> <<"b">>, content |-> <<"a">>,
                            category |-> IF d = 1 THEN "diversidad" ELSE "vacaciones",
                            metadata |-> [source |-> "client"]]]
        /\ embeddings = [i \in 1..n |->
                            [id |-> i, document_id |-> ((i - 1) % 2) + 1,
                             chunk_text |-> <<"a">>, embedding |-> StoredVectors[vs[i]],
                             chunk_index |-> (i - 1) \div 2]]
        /\ doc_seq = 2
        /\ emb_seq = n
        /\ service = [constructed |-> TRUE, openai_client |-> FALSE]
        /\ del = DelIdle
        /\ qry = QryIdle
        /\ out = NoOut
        /\ adds = 0
        /\ deletes = 0

\* SQLiteVectorRepository.search_similar
SearchSimilar(query_embedding, top_k, category) ==
    /\ \E r \in {search_similar(embeddings, documents, query_embedding, top_k, category)} :
           out' = [op |-> "search_similar", query_embedding |-> query_embedding,
                   top_k |-> top_k, category |-> category, err |-> r.err,
                   chunks |-> r.chunks]
    /\ UNCHANGED <<documents, embeddings, doc_seq, emb_seq, service, del, qry, adds,
                   deletes>>

NextSearch ==
    \E q \in QueryVectors, k \in 1..(MaxRows + 1), c \in SearchCategories :
        SearchSimilar(q, k, c)

SpecSearch == InitSearch /\ [][NextSearch]_vars

(***************************************************************************)
(* The vector search on stores of LongRows rows, for the binary insertion  *)
(* of list.sort past its initial run                                       *)
(***************************************************************************)
LongRows == 7

LongStoredVectors == << <<4, 3>>, <<3, 4>>, <<0, 0>> >>

LongQueryVectors == { <<0, 1>>, <<1, 0>>, <<0, 0>> }

\* one document; row i is its chunk i - 1 and holds any of the three vectors
InitSearchLong ==
    \E vs \in [1..LongRows -> 1..Len(LongStoredVectors)] :
        /\ documents = [d \in 1..1 |->
                           [title |-> <<"b">>, content |-> <<"a">>,
                            category |-> "diversidad",
                            metadata |-> [source |-> "client"]]]
        /\ embeddings = [i \in 1..LongRows |->
                            [id |-> i, document_id |-> 1,
                             chunk_text |-> <<"a">>,
                             embedding |-> LongStoredVectors[vs[i]],
                             chunk_index |-> i - 1]]
        /\ doc_seq = 1
        /\ emb_seq = LongRows
        /\ service = [constructed |-> TRUE, openai_client |-> FALSE]
        /\ del = DelIdle
        /\ qry = QryIdle
        /\ out = NoOut
        /\ adds = 0
        /\ deletes = 0

NextSearchLong == \E q \in LongQueryVectors : SearchSimilar(q, LongRows, "")

SpecSearchLong == InitSearchLong /\ [][NextSearchLong]_vars

(***************************************************************************)
(* The chunker alone, on texts of at most MaxWords words                   *)
(***************************************************************************)
MaxWords == 6
MaxChunkSize == 4

\* the one-character words of the texts, no two alike once lowercased
WordSyms == <<"A", "b", "Google", "Código", "x", "y", "z", "w">>

\* a text of n distinct words, after lead, with sep between two words
TextOf(n, lead, sep) ==
    lead \o [i \in 1..(n + (n - 1) * Len(sep)) |->
                IF (i - 1) % (1 + Len(sep)) = 0
                THEN WordSyms[(((i - 1) \div (1 + Len(sep))) % Len(WordSyms)) + 1]
                ELSE sep[(i - 1) % (1 + Len(sep))]]

InitSplit ==
    \E n \in 0..MaxWords, lead \in { << >>, <<" ">> }, sep \in { <<" ">>, <<" ", "\n">> } :
        /\ documents = << >>
        /\ embeddings = << >>
        /\ doc_seq = 0
        /\ emb_seq = 0
        /\ service = [constructed |-> FALSE, openai_client |-> FALSE]
        /\ del = DelIdle
        /\ qry = [pc |-> "text", text |-> TextOf(n, lead, sep), n |-> n]
        /\ out = NoOut
        /\ adds = 0
        /\ deletes = 0

\* BasicTextProcessor.split_text on the text held
SplitText(chunk_size, overlap) ==
    /\ qry.pc = "text"
    /\ out' = [op |-> "split_text", text |-> qry.text, n |-> qry.n,
               chunk_size |-> chunk_size, overlap |-> overlap,
               chunks |-> split_text(qry.text, chunk_size, overlap)]
    /\ UNCHANGED <<documents, embeddings, doc_seq, emb_seq, service, del, qry, adds,
                   deletes>>

NextSplit ==
    \E chunk_size \in 1..MaxChunkSize : \E overlap \in 0..(chunk_size - 1) :
        SplitText(chunk_size, overlap)

SpecSplit == InitSplit /\ [][NextSplit]_vars

(***************************************************************************)
(* The window loop of the chunker, one iteration a step                    *)
(***************************************************************************)
\* a next start that takes the overlap off twice
NextStartDoubleOverlap(end, overlap) ==
    IF end - 2 * overlap < 0 THEN 0 ELSE end - 2 * overlap

\* start = end - overlap; if start < 0: start = 0
NextStart(end, overlap) ==
    IF end - overlap < 0 THEN 0 ELSE end - overlap

SplitOut(chunk_size, overlap, chunks, iterations) ==
    [op |-> "split_text_loop", text |-> qry.text, n |-> qry.n,
     chunk_size |-> chunk_size, overlap |-> overlap,
     chunks |-> chunks, iterations |-> iterations]

\* split_text up to the first test of the while loop
SplitBegin(chunk_size, overlap) ==
    /\ qry.pc = "text"
    /\ IF qry.text = << >> \/ Strip(qry.text) = << >>
       THEN /\ out' = SplitOut(chunk_size, overlap, << >>, 0)
            /\ qry' = qry
       ELSE \E cleaned \in {clean_text(qry.text)} : \E words \in {Words(cleaned)} :
               IF Len(words) <= chunk_size
               THEN /\ out' = SplitOut(chunk_size, overlap, <<cleaned>>, 0)
                    /\ qry' = qry
               ELSE /\ out' = NoOut
                    /\ qry' = [pc |-> "loop", text |-> qry.text, n |-> qry.n,
                               chunk_size |-> chunk_size, overlap |-> overlap,
                               words |-> words, start |-> 0, chunks |-> << >>,
                               iterations |-> 0]
    /\ UNCHANGED <<documents, embeddings, doc_seq, emb_seq, service, del, adds, deletes>>

\* one pass of the while loop, from its test to the next test or to the return
SplitIterate ==
    /\ qry.pc = "loop"
    /\ IF ~(qry.start < Len(qry.words))
       THEN /\ out' = SplitOut(qry.chunk_size, qry.overlap, qry.chunks, qry.iterations)
            /\ qry' = [pc |-> "text", text |-> qry.text, n |-> qry.n]
       ELSE \E end \in {Min(qry.start + qry.chunk_size, Len(qry.words))} :
            \E chunk \in {Strip(Join(SubSeq(qry.words, qry.start + 1, end)))} :
            \E chunks \in {IF chunk # << >> THEN Append(qry.chunks, chunk) ELSE qry.chunks} :
               IF end >= Len(qry.words)
               THEN /\ out' = SplitOut(qry.chunk_size, qry.overlap, chunks,
                                       qry.iterations + 1)
                    /\ qry' = [pc |-> "text", text |-> qry.text, n |-> qry.n]
               ELSE /\ out' = NoOut
                    /\ qry' = [qry EXCEPT !.start = NextStart(end, qry.overlap),
                                          !.chunks = chunks,
                                          !.iterations = qry.iterations + 1]
    /\ UNCHANGED <<documents, embeddings, doc_seq, emb_seq, service, del, adds, deletes>>

NextSplitLoop ==
    \/ \E chunk_size \in 1..MaxChunkSize : \E overlap \in 0..(chunk_size - 1) :
           SplitBegin(chunk_size, overlap)
    \/ SplitIterate

\* a call that has entered the loop goes on running
SpecSplitLoop == InitSplit /\ [][NextSplitLoop]_vars /\ WF_vars(SplitIterate)

\* the loop taken a pass at a time returns what split_text returns
SplitLoopAgrees ==
    out.op = "split_text_loop" =>
        out.chunks = split_text(out.text, out.chunk_size, out.overlap)

(***************************************************************************)
(* The encoder alone, on batches of at most MaxBatch texts                 *)
(***************************************************************************)
MaxBatch == 3

BatchTexts == { << >>, <<" ">>, <<"a">>, <<" ", "b">>, <<"google", " ", "a", "\n">> }

InitEncode ==
    \E k \in 0..MaxBatch : \E texts \in [1..k -> BatchTexts] :
        /\ documents = << >>
        /\ embeddings = << >>
        /\ doc_seq = 0
        /\ emb_seq = 0
        /\ service = [constructed |-> FALSE, openai_client |-> FALSE]
        /\ del = DelIdle
        /\ qry = [pc |-> "batch", texts |-> texts]
        /\ out = NoOut
        /\ adds = 0
        /\ deletes = 0

\* SentenceTransformerService.encode_batch on the batch held
EncodeBatch ==
    /\ qry.pc = "batch"
    /\ out = NoOut
    /\ \E r \in {encode_batch(qry.texts)} :
          out' = [op |-> "encode_batch", texts |-> qry.texts, err |-> r.err,
                  vecs |-> r.vecs]
    /\ UNCHANGED <<documents, embeddings, doc_seq, emb_seq, service, del, qry, adds,
                   deletes>>

NextEncode == EncodeBatch

SpecEncode == InitEncode /\ [][NextEncode]_vars

(***************************************************************************)
(* The lazily created global services of the API.  get_main_service is a   *)
(* plain function used as a dependency, which the framework runs on a      *)
(* thread of its pool, one thread a request: its test of the global and    *)
(* its assignment are two steps.  get_integrated_service is a coroutine of *)
(* the event loop that never suspends (every coroutine it awaits runs to   *)
(* its end without yielding): one step.  initialize does not fail here.    *)
(***************************************************************************)
MaxRequests == 3

Requests == 1..MaxRequests

\* None, as the value of a global
None == 0

RequestIdle == [pc |-> "idle", dep |-> "none", got |-> None]

InitSingleton ==
    /\ documents = << >>
    /\ embeddings = << >>
    /\ doc_seq = 0
    /\ emb_seq = 0
    /\ service = [main_service |-> None, main_built |-> 0,
                  integrated_service |-> None, global_integrated_service |-> None,
                  integrated_built |-> 0, integrated_initialized |-> 0]
    /\ del = DelIdle
    /\ qry = [r \in Requests |-> RequestIdle]
    /\ out = NoOut
    /\ adds = 0
    /\ deletes = 0

SingletonFrame == UNCHANGED <<documents, embeddings, doc_seq, emb_seq, del, adds, deletes>>

\* get_main_service: `if _main_service is None`
MainServiceTest(r) ==
    /\ qry[r].pc = "idle"
    /\ qry' = [qry EXCEPT ![r] = [pc |-> IF service.main_service = None THEN "create"
                                         ELSE "return",
                                  dep |-> "get_main_service", got |-> None]]
    /\ out' = NoOut
    /\ UNCHANGED service
    /\ SingletonFrame

\* get_main_service: `_main_service = MainServiceFactory.create_main_service()`;
\* the instances are numbered in the order of their construction
MainServiceCreate(r) ==
    /\ qry[r].pc = "create" /\ qry[r].dep = "get_main_service"
    /\ service' = [service EXCEPT !.main_built = service.main_built + 1,
                                  !.main_service = service.main_built + 1]
    /\ qry' = [qry EXCEPT ![r].pc = "return"]
    /\ out' = NoOut
    /\ SingletonFrame

\* get_main_service: `return _main_service`
MainServiceReturn(r) ==
    /\ qry[r].pc = "return" /\ qry[r].dep = "get_main_service"
    /\ qry' = [qry EXCEPT ![r] = [pc |-> "done", dep |-> "get_main_service",
                                  got |-> service.main_service]]
    /\ out' = [op |-> "get_main_service", request |-> r, got |-> service.main_service]
    /\ UNCHANGED service
    /\ SingletonFrame

\* get_global_integrated_service on the globals s: creates and initialises the
\* service if there is none (a service it created is initialised already)
get_global_integrated_service(s) ==
    IF s.global_integrated_service = None
    THEN [s EXCEPT !.integrated_built = s.integrated_built + 1,
                   !.integrated_initialized = s.integrated_initialized + 1,
                   !.global_integrated_service = s.integrated_built + 1]
    ELSE s

\* get_integrated_service, from its test to its return
IntegratedServiceGet(r) ==
    /\ qry[r].pc = "idle"
    /\ \E s \in {IF service.integrated_service = None
                  THEN Let(get_global_integrated_service(service), LAMBDA g :
                           [g EXCEPT !.integrated_service = g.global_integrated_service])
                  ELSE service} :
          /\ service' = s
          /\ qry' = [qry EXCEPT ![r] = [pc |-> "done", dep |-> "get_integrated_service",
                                        got |-> s.integrated_service]]
          /\ out' = [op |-> "get_integrated_service", request |-> r,
                     got |-> s.integrated_service]
    /\ SingletonFrame

\* the request is answered; its thread or task serves a later request
RequestEnd(r) ==
    /\ qry[r].pc = "done"
    /\ qry' = [qry EXCEPT ![r] = RequestIdle]
    /\ out' = NoOut
    /\ UNCHANGED service
    /\ SingletonFrame

NextSingleton ==
    \E r \in Requests :
        \/ MainServiceTest(r)
        \/ MainServiceCreate(r)
        \/ MainServiceReturn(r)
        \/ IntegratedServiceGet(r)
        \/ RequestEnd(r)

SpecSingleton == InitSingleton /\ [][NextSingleton]_vars

(***************************************************************************)
(* IntegratedRAGService over the store: initialize, ask_question,          *)
(* add_document, reload_preloaded_data, and the start of a new process     *)
(* (a new IntegratedRAGService) over the same store                        *)
(***************************************************************************)
MaxQueries == 1
MaxReloads == 1
MaxStarts == 2
\* RAG services a single IntegratedRAGService makes in initialize calls that fail
MaxCreates == 1

StoreOf(docs, embs, dseq, eseq) ==
    [documents |-> docs, embeddings |-> embs, doc_seq |-> dseq, emb_seq |-> eseq]

\* RAGServiceImpl.__init__ on the store
rag_service_init(st) ==
    IF get_document_count(st.documents) = 0
    THEN LoadPolicies(st.documents, st.embeddings, st.doc_seq, st.emb_seq,
                      PredefinedPolicies)
    ELSE st

\* _load_hr_policies and _load_faq_data: every item is added through the
\* adapter, a failing one is skipped
RECURSIVE LoadPreloaded(_, _)
LoadPreloaded(st, items) ==
    IF items = << >> THEN st
    ELSE Let(adapter_add_document(st.documents, st.embeddings, st.doc_seq, st.emb_seq,
                                  items[1].title, items[1].content, items[1].category,
                                  [source |-> "preloaded"], "none"),
             LAMBDA r : LoadPreloaded(StoreOf(r.documents, r.embeddings, r.doc_seq,
                                              r.emb_seq), Tail(items)))

\* a load that does not look at the store first
load_all_preloaded_data_unchecked(st, force_reload) ==
    LoadPreloaded(st, PreloadedData)

\* DataLoaderService.load_all_preloaded_data
load_all_preloaded_data(st, force_reload) ==
    IF ~force_reload /\ get_document_count(st.documents) > 0 THEN st
    ELSE LoadPreloaded(st, PreloadedData)

\* a new IntegratedRAGService, the number-th made over the store
NewIntegrated(number) ==
    [constructed |-> FALSE, openai_client |-> FALSE, instance |-> number,
     initialized |-> FALSE, system_ready |-> FALSE, rag_created |-> 0,
     documents_loaded |-> 0, queries_processed |-> 0, reloads |-> 0]

\* the body of initialize; fail names the call that raises: "none", "factory"
\* (RAGFactory.create_rag_system) or "loader" (AutoDataLoader.initialize_system,
\* before it loads).  Result: [service, store, err, status, before, at_loader]
InitializeRun(svc, st, fail) ==
    IF fail = "factory"
    THEN [service |-> [svc EXCEPT !.system_ready = FALSE], store |-> st,
          err |-> "RAGDomainException", status |-> "",
          before |-> get_document_count(st.documents), at_loader |-> -1]
    ELSE Let(rag_service_init(st), LAMBDA st1 :
         IF fail = "loader"
         THEN [service |-> [svc EXCEPT !.system_ready = FALSE, !.constructed = TRUE,
                                       !.rag_created = svc.rag_created + 1],
               store |-> st1, err |-> "RAGDomainException", status |-> "",
               before |-> get_document_count(st.documents), at_loader |-> -1]
         ELSE Let(load_all_preloaded_data(st1, FALSE), LAMBDA st2 :
              [service |-> [svc EXCEPT !.system_ready = TRUE, !.initialized = TRUE,
                                       !.constructed = TRUE,
                                       !.rag_created = svc.rag_created + 1,
                                       !.documents_loaded =
                                           get_document_count(st2.documents)
                                             - get_document_count(st1.documents)],
               store |-> st2, err |-> "", status |-> "initialized",
               before |-> get_document_count(st.documents),
               at_loader |-> get_document_count(st1.documents)]))

\* an initialize without its test of _initialized
initialize_unguarded(svc, st, fail) == InitializeRun(svc, st, fail)

\* IntegratedRAGService.initialize
initialize(svc, st, fail) ==
    IF svc.initialized
    THEN [service |-> svc, store |-> st, err |-> "", status |-> "already_initialized",
          before |-> get_document_count(st.documents), at_loader |-> -1]
    ELSE InitializeRun(svc, st, fail)

InitIntegrated ==
    /\ documents = << >>
    /\ embeddings = << >>
    /\ doc_seq = 0
    /\ emb_seq = 0
    /\ service = NewIntegrated(1)
    /\ del = DelIdle
    /\ qry = QryIdle
    /\ out = NoOut
    /\ adds = 0
    /\ deletes = 0

IntegratedFails == {"none", "factory", "loader"}

SetStore(st) ==
    /\ documents' = st.documents
    /\ embeddings' = st.embeddings
    /\ doc_seq' = st.doc_seq
    /\ emb_seq' = st.emb_seq

\* a call of initialize
IntegratedInitialize(fail) ==
    /\ fail # "none" => (~service.initialized /\ service.rag_created < MaxCreates)
    /\ \E st \in {StoreOf(documents, embeddings, doc_seq, emb_seq)} :
       \E r \in {initialize(service, st, fail)} :
          /\ service' = r.service
          /\ SetStore(r.store)
          /\ out' = [op |-> "initialize", err |-> r.err, status |-> r.status,
                     before |-> r.before, at_loader |-> r.at_loader,
                     added |-> get_document_count(r.store.documents)
                                 - get_document_count(documents)]
    /\ UNCHANGED <<del, qry, adds, deletes>>

\* IntegratedRAGService.ask_question; an instance not yet initialised is
\* initialised first
IntegratedAskQuestion(question, top_k, use_ai, gen, fail) ==
    /\ service.queries_processed < MaxQueries
    /\ fail # "none" => (~service.initialized /\ service.rag_created < MaxCreates)
    /\ \E st \in {StoreOf(documents, embeddings, doc_seq, emb_seq)} :
       \E i \in {initialize(service, st, fail)} :
          /\ SetStore(i.store)
          /\ IF i.err # ""
             THEN /\ service' = i.service
                  /\ out' = [op |-> "ask_question", err |-> i.err, resp |-> NoResponse]
             ELSE IF question = << >> \/ Strip(question) = << >>
             THEN /\ service' = i.service
                  /\ out' = [op |-> "ask_question", err |-> "RAGDomainException",
                             resp |-> NoResponse]
             ELSE \E r \in {SearchBegin(i.store.embeddings, i.store.documents,
                                         Strip(question), top_k, "")} :
                  IF r.err # ""
                  THEN /\ service' = i.service
                       /\ out' = [op |-> "ask_question", err |-> "RAGDomainException",
                                  resp |-> NoResponse]
                  ELSE \E results \in {Hydrate(r.chunks, i.store.documents)} :
                       /\ gen # "ok" => (results # << >> /\ use_ai)
                       /\ service' = [i.service EXCEPT !.queries_processed =
                                                          i.service.queries_processed + 1]
                       /\ out' = [op |-> "ask_question", err |-> "",
                                  resp |-> IntegratedCompose(results, question, use_ai,
                                                             gen)]
    /\ UNCHANGED <<del, qry, adds, deletes>>

\* IntegratedRAGService.add_document
IntegratedAddDocument(title, content, category, fail) ==
    /\ adds < MaxAdds
    /\ fail # "none" =>
          (service.constructed /\ ~AddRejects(title, content, category))
    /\ adds' = adds + 1
    /\ IF ~service.constructed
       THEN /\ out' = [op |-> "add_document", via |-> "integrated",
                       err |-> "RAGDomainException", id |-> 0]
            /\ UNCHANGED <<documents, embeddings, doc_seq, emb_seq, service>>
       ELSE \E r \in {add_document(documents, embeddings, doc_seq, emb_seq, title,
                                   content, category, [source |-> "client"], fail)} :
            /\ SetStore(r)
            /\ service' = IF r.err = ""
                          THEN [service EXCEPT !.documents_loaded =
                                                  service.documents_loaded + 1]
                          ELSE service
            /\ out' = [op |-> "add_document", via |-> "integrated",
                       err |-> IF r.err = "" THEN "" ELSE "RAGDomainException",
                       id |-> r.id]
    /\ UNCHANGED <<del, qry, deletes>>

\* IntegratedRAGService.reload_preloaded_data: the loader with force_reload
IntegratedReload ==
    /\ service.initialized
    /\ service.reloads < MaxReloads
    /\ \E st \in {load_all_preloaded_data(StoreOf(documents, embeddings, doc_seq,
                                                  emb_seq), TRUE)} :
          /\ SetStore(st)
          /\ service' = [service EXCEPT !.reloads = service.reloads + 1]
          /\ out' = [op |-> "reload_preloaded_data", err |-> "",
                     added |-> get_document_count(st.documents)
                                 - get_document_count(documents)]
    /\ UNCHANGED <<del, qry, adds, deletes>>

\* the process ends and a new one makes its IntegratedRAGService over the store
IntegratedStart ==
    /\ service.instance < MaxStarts
    /\ service' = NewIntegrated(service.instance + 1)
    /\ out' = [op |-> "start"]
    /\ UNCHANGED <<documents, embeddings, doc_seq, emb_seq, del, qry, adds, deletes>>

NextIntegrated ==
    \/ \E f \in IntegratedFails : IntegratedInitialize(f)
    \/ \E q \in AskQuestions, k \in AskTopKs, ai \in BOOLEAN, g \in GenOutcomes,
          f \in IntegratedFails :
           IntegratedAskQuestion(q, k, ai, g, f)
    \/ \E c \in {<< >>, <<"A", " ", " ", "b">>}, f \in {"none", "embed"} :
           IntegratedAddDocument(<<"b">>, c, " vacaciones", f)
    \/ IntegratedReload
    \/ IntegratedStart

SpecIntegrated == InitIntegrated /\ [][NextIntegrated]_vars

(***************************************************************************)
(* The department filter alone, on lists of at most MaxResults results     *)
(***************************************************************************)
\* results in a list handed to the filter
MaxResults == 2
\* calls of the filter on one list
MaxFilterCalls == 2

\* (category, chunk text, title) of the results tried: in a category of "it";
\* in none of "it" but with the keyword "código" in the title once lowered;
\* in a category of "rrhh" only; in no category, with the keyword "empleado"
\* of "rrhh" inside a word
ResultKinds == {
    <<"trabajo_remoto", <<"a">>, <<"b">> >>,
    <<"vacaciones", <<"a">>, <<"Código">> >>,
    <<"vacaciones", <<"a">>, <<"b">> >>,
    <<"otros", <<"empleados">>, <<"b">> >> }

ResultScores == {Rat(1, 2), Rat(1, 1)}

\* the i-th result of a list: chunk i of document i
ResultOf(i, kind, score) ==
    [document |-> [id |-> i, title |-> kind[3], content |-> kind[2],
                   category |-> kind[1], metadata |-> [source |-> "client"]],
     chunk |-> [id |-> i, document_id |-> i, chunk_text |-> kind[2],
                embedding |-> EmbTable[1], chunk_index |-> 0,
                similarity_score |-> score],
     relevance_score |-> score]

FilterDepartments == {"", "general", "General", "GENERAL", "it", "IT", "RRHH", "xx"}

InitFilter ==
    \E n \in 0..MaxResults :
      \E ks \in [1..n -> ResultKinds], ss \in [1..n -> ResultScores] :
        /\ documents = << >>
        /\ embeddings = << >>
        /\ doc_seq = 0
        /\ emb_seq = 0
        /\ service = [constructed |-> TRUE, openai_client |-> FALSE]
        /\ del = DelIdle
        /\ qry = [pc |-> "held", calls |-> 0,
                  results |-> [i \in 1..n |-> ResultOf(i, ks[i], ss[i])]]
        /\ out = NoOut
        /\ adds = 0
        /\ deletes = 0

\* DepartmentContextServiceImpl.filter_by_department on the list the caller
\* holds: out.input is the list as it was passed, qry.results as it is after
FilterByDepartment(department) ==
    /\ qry.pc = "held"
    /\ qry.calls < MaxFilterCalls
    /\ out' = [op |-> "filter_by_department", department |-> department,
               input |-> qry.results, calls |-> qry.calls + 1,
               results |-> filter_by_department(qry.results, department)]
    /\ qry' = [qry EXCEPT !.calls = @ + 1,
                          !.results = FilterLeavesInput(qry.results, department)]
    /\ UNCHANGED <<documents, embeddings, doc_seq, emb_seq, service, del, adds, deletes>>

NextFilter == \E d \in FilterDepartments : FilterByDepartment(d)

SpecFilter == InitFilter /\ [][NextFilter]_vars

(***************************************************************************)
(* Properties                                                              *)
(***************************************************************************)
\* C1: whatever add_document and delete_document calls were made, every stored
\* chunk's document_id is the id of a stored document (ids are the keys of
\* the documents table, so of exactly one)
C1_NoOrphanChunk ==
    \A i \in 1..Len(embeddings) : embeddings[i].document_id \in DOMAIN documents

\* a delete succeeded after an addition, and chunks are still stored
C1_Witness ==
    /\ out.op = "delete_document" /\ out.success
    /\ adds > 0
    /\ Len(embeddings) > 1

\* the chunks of document d, in row order
ChunksOfDocument(embs, d) == SelectSeq(embs, LAMBDA e : e.document_id = d)

\* C2: a delete_document(id) that returns true leaves no document id (get_document
\* is None) and no chunk of it, and every other document and every chunk of
\* every other document as they were; stated on its two steps
C2_DeleteFrame ==
    [][ /\ (del.pc = "idle" /\ del'.pc = "doc") =>
              /\ documents' = documents
              /\ \A i \in 1..Len(embeddings') : embeddings'[i].document_id # del'.id
              /\ \A d \in DOMAIN documents \ {del'.id} :
                     ChunksOfDocument(embeddings', d) = ChunksOfDocument(embeddings, d)
        /\ (del.pc = "doc" /\ del'.pc = "idle" /\ out'.err = "" /\ out'.success) =>
              /\ del.id \in DOMAIN documents
              /\ del.id \notin DOMAIN documents'
              /\ DOMAIN documents' = DOMAIN documents \ {del.id}
              /\ \A d \in DOMAIN documents' : documents'[d] = documents[d]
              /\ embeddings' = embeddings
              /\ \A i \in 1..Len(embeddings') : embeddings'[i].document_id # del.id
      ]_vars

\* a delete returned true and left another document with its chunks
C2_Witness ==
    /\ out.op = "delete_document" /\ out.err = "" /\ out.success
    /\ documents # << >>
    /\ embeddings # << >>

\* the rows search_similar scans for a category ("": all rows)
C3_Scanned(embs, docs, category) ==
    SelectSeq(embs, LAMBDA e : category = "" \/ (e.document_id \in DOMAIN docs
                                                  /\ docs[e.document_id].category = category))

\* C3: for every query vector and top_k >= 1, search_similar returns
\* min(top_k, N) of the N scanned chunks, each score >= the score after it, and
\* no chunk left out scores strictly more than a returned one
C3_TopKSortedDescending ==
    (out.op = "search_similar" /\ out.top_k >= 1) =>
        LET scanned == C3_Scanned(embeddings, documents, out.category)
            returned == {out.chunks[i].id : i \in 1..Len(out.chunks)}
        IN  /\ out.err = ""
            /\ Len(out.chunks) = Min(out.top_k, Len(scanned))
            /\ \A i \in 1..(Len(out.chunks) - 1) :
                   FGe(out.chunks[i].similarity_score, out.chunks[i + 1].similarity_score)
            /\ \A j \in 1..Len(scanned) : \A i \in 1..Len(out.chunks) :
                   scanned[j].id \notin returned =>
                       ~FLt(out.chunks[i].similarity_score,
                            Cosine(out.query_embedding, scanned[j].embedding))

\* the chunks of a vector search whose parent document is stored
C4_Kept(chunks, docs) == SelectSeq(chunks, LAMBDA c : c.document_id \in DOMAIN docs)

\* C4: search_documents raises nothing for a chunk whose parent is missing; its
\* results are the chunks whose parent is stored, in the order of the vector
\* search, each with its own parent and relevance_score = similarity_score
C4_HydrateDropsOrphans ==
    /\ (out.op = "search_documents" /\ out.chunks # << >>) => out.err = ""
    /\ (out.op = "search_documents" /\ out.err = "") =>
          LET kept == C4_Kept(out.chunks, documents)
          IN  /\ Len(out.results) = Len(kept)
              /\ \A i \in 1..Len(kept) :
                     /\ out.results[i].chunk = kept[i]
                     /\ out.results[i].document.id = kept[i].document_id
                     /\ \A f \in {"title", "content", "category", "metadata"} :
                            out.results[i].document[f] = documents[kept[i].document_id][f]
                     /\ out.results[i].relevance_score = kept[i].similarity_score

\* search_documents returned results after dropping a chunk, ahead of a kept
\* one, whose parent was deleted meanwhile
C4_Witness ==
    /\ out.op = "search_documents" /\ out.err = ""
    /\ \E i \in 1..Len(out.chunks) : \E j \in (i + 1)..Len(out.chunks) :
           /\ out.chunks[i].document_id \notin DOMAIN documents
           /\ out.chunks[j].document_id \in DOMAIN documents

\* C5: a response built on an empty result set has confidence 0.0 and no
\* sources, whichever of generate_response, execute and ask_question built it
C5_EmptyResultsZeroConfidence ==
    (out.op \in {"generate_response", "execute", "ask_question"}
        /\ out.err = "" /\ out.results = << >>) =>
        (out.resp.confidence = Zero /\ out.resp.sources = << >>)

\* C6: in generate_response with use_ai, a generator configured and results, a
\* generator call that fails, whatever it raises, ends in a response whose
\* answer is the template composer's for the same results
C6_GeneratorFailureFallsBack ==
    (out.op = "generate_response" /\ out.req.use_ai /\ service.openai_client
        /\ out.results # << >> /\ out.gen \in {"AIServiceError", "OtherError"}) =>
        (out.err = "" /\ out.resp.answer = TemplateResponse(out.results))

\* C7: the confidence of a response of generate_response or ask_question with
\* sources is the sum of their relevance_score divided by their number
C7_ConfidenceIsMean ==
    (out.op \in {"generate_response", "ask_question"} /\ out.err = ""
        /\ out.resp.sources # << >>) =>
        out.resp.confidence
            = FDivInt(FSum([i \in 1..Len(out.resp.sources) |->
                               out.resp.sources[i].relevance_score]),
                      Len(out.resp.sources))

\* C8: a question that is empty after trimming is answered by InvalidQueryError
\* at each of search_documents, generate_response, execute and ask_question
C8_EmptyQueryIsInvalidQuery ==
    (out.op \in {"search_documents", "generate_response", "execute", "ask_question"}
        /\ Strip(out.req.question) = << >>) =>
        out.err = "InvalidQueryError"

\* the requests C9 lets through; no department is written ""
C9_Passes(req) ==
    /\ Strip(req.question) # << >>
    /\ Len(req.question) <= 1000
    /\ req.top_k >= 1 /\ req.top_k <= 20
    /\ (req.department = "" \/ LowerId(req.department) \in Departments)

\* C9: the first step of execute rejects with InvalidQueryError, with nothing
\* searched, filtered or generated, every request with an empty or too long
\* question, a top_k outside [1,20] or an unknown department, and takes every
\* other request to the vector search
C9_ValidationBeforeSearch ==
    [][ (qry.pc = "idle"
           /\ ((qry'.pc # "idle" /\ qry'.entry = "execute") \/ out'.op = "execute")) =>
          IF C9_Passes(IF qry'.pc # "idle" THEN qry'.req ELSE out'.req)
          THEN \/ qry'.pc = "hydrate" /\ qry'.entry = "execute"
               \/ qry'.pc = "idle" /\ out'.err = "VectorSearchError"
          ELSE /\ qry'.pc = "idle"
               /\ out'.err = "InvalidQueryError"
               /\ out'.chunks = << >> /\ out'.results = << >> /\ out'.gen = "none"
      ]_vars

\* execute rejected a request for its department alone
C9_Witness ==
    /\ out.op = "execute" /\ out.err = "InvalidQueryError"
    /\ out.req.department = "xx"
    /\ Strip(out.req.question) # << >> /\ Len(out.req.question) = 1000
    /\ out.req.top_k = 2

\* C10: a delete of a positive id that no stored document has never reports
\* success: through RAGServiceImpl it returns false or raises, through the
\* adapter and MainRAGService it raises DocumentNotFoundError, and the
\* documents are as they were
C10_DeleteMissingIsNotFound ==
    [][ ((deletes' = deletes + 1 \/ (del.pc = "doc" /\ del'.pc = "idle"))
            /\ out'.op = "delete_document" /\ out'.id > 0
            /\ out'.id \notin DOMAIN documents) =>
          /\ ~out'.success
          /\ out'.via \in {"adapter", "main"} => out'.err = "DocumentNotFoundError"
          /\ out'.via = "impl" => out'.err \in {"", "DocumentNotFoundError"}
          /\ documents' = documents
      ]_vars

\* MainRAGService.delete_document raised DocumentNotFoundError for an id that
\* was never given to a document
C10_Witness ==
    /\ out.op = "delete_document" /\ out.via = "main"
    /\ out.id > doc_seq
    /\ out.err = "DocumentNotFoundError"
    /\ documents # << >>

\* C11: add_document with an empty title, content or category, through
\* RAGServiceImpl or the adapter, raises InvalidQueryError and leaves the
\* documents and the chunks as they were
C11_EmptyFieldStoresNothing ==
    [][ (adds' = adds + 1 /\ out'.op = "add_document"
            /\ (out'.title = << >> \/ out'.content = << >> \/ out'.category = "")) =>
          /\ out'.err = "InvalidQueryError"
          /\ get_document_count(documents') = get_document_count(documents)
          /\ documents' = documents
          /\ embeddings' = embeddings
      ]_vars

\* RAGServiceImpl.add_document rejected an empty category, with title and
\* content given, on a store that holds documents and chunks
C11_Witness ==
    /\ out.op = "add_document" /\ out.via = "impl"
    /\ out.title # << >> /\ out.content = LongContent /\ out.category = ""
    /\ out.err = "InvalidQueryError"
    /\ documents # << >> /\ embeddings # << >>


\* C12: for a department that is given and not "general", each result passed
\* to filter_by_department is, by the first rule that applies, returned as it
\* is (category of the department), returned with 0.8 times its score (a
\* keyword of the department in its lowered chunk text and title) or left out
C12_FilterClassifies ==
    (out.op = "filter_by_department" /\ out.department # ""
        /\ LowerId(out.department) # "general") =>
        /\ \A j \in 1..Len(out.results) :
               out.results[j].chunk.id \in 1..Len(out.input)
        /\ \A i \in 1..Len(out.input) :
             \E hits \in {{j \in 1..Len(out.results) :
                              out.results[j].chunk.id = out.input[i].chunk.id}} :
               IF out.input[i].document.category
                     \in department_categories(LowerId(out.department))
               THEN /\ Cardinality(hits) = 1
                    /\ \A j \in hits : out.results[j] = out.input[i]
               ELSE IF HasKeyword(Lower(out.input[i].chunk.chunk_text \o <<" ">>
                                          \o out.input[i].document.title),
                                  department_keywords(LowerId(out.department)))
               THEN /\ Cardinality(hits) = 1
                    /\ \A j \in hits :
                         out.results[j]
                            = [out.input[i] EXCEPT
                                 !.relevance_score = FMul(@, Rat(4, 5))]
               ELSE hits = {}

\* the filter for "IT" left out a result of category vacaciones without
\* keyword and kept, penalised, one with the keyword in its title
C12_Witness ==
    /\ out.op = "filter_by_department" /\ out.department = "IT"
    /\ Len(out.input) = 2 /\ Len(out.results) = 1
    /\ out.input[1].document.category = "vacaciones"
    /\ out.results[1].chunk.id = 2
    /\ out.results[1].document.title = <<"Código">>
    /\ out.results[1].relevance_score = FMul(out.input[2].relevance_score, Rat(4, 5))

\* C13: what filter_by_department returns is a subsequence of its input: the
\* results kept are results of the input, in the order of the input, also
\* when a penalised result scores less than one after it
C13_FilterKeepsOrder ==
    out.op = "filter_by_department" =>
        /\ \A j \in 1..Len(out.results) :
               /\ out.results[j].chunk.id \in 1..Len(out.input)
               /\ out.results[j].document = out.input[out.results[j].chunk.id].document
               /\ out.results[j].chunk = out.input[out.results[j].chunk.id].chunk
        /\ \A j \in 1..(Len(out.results) - 1) :
               out.results[j].chunk.id < out.results[j + 1].chunk.id

\* a penalised result is returned ahead of a result that now scores more
C13_Witness ==
    /\ out.op = "filter_by_department" /\ Len(out.results) = 2
    /\ out.results[1].relevance_score # out.input[1].relevance_score
    /\ out.input[1].relevance_score = out.input[2].relevance_score
    /\ FLt(out.results[1].relevance_score, out.results[2].relevance_score)

\* C14: filter_by_department leaves the results of the list passed to it as
\* they were, and a second call on the same list with the same department
\* returns the scores the first call returned
C14_FilterIsPure ==
    [][ (out'.op = "filter_by_department" /\ qry'.calls = qry.calls + 1) =>
          /\ qry'.results = qry.results
          /\ (out.op = "filter_by_department" /\ out.department = out'.department) =>
                 Scores(out'.results) = Scores(out.results)
      ]_vars

\* C15: with no department or with "general" in any letter case,
\* filter_by_department returns the list it was passed: the same results,
\* order and scores
C15_GeneralIsIdentity ==
    (out.op = "filter_by_department"
        /\ (out.department = "" \/ LowerId(out.department) = "general")) =>
        (out.results = out.input /\ qry.results = out.input)

\* the filter for "GENERAL" returned a list of two results that no
\* department's category holds
C15_Witness ==
    /\ out.op = "filter_by_department" /\ out.department = "GENERAL"
    /\ Len(out.input) = 2 /\ Len(out.results) = 2
    /\ \A i \in 1..2 : out.input[i].document.category = "otros"


\* C16: of two scanned chunks with equal similarity, search_similar returns the
\* one scanned first ahead of the other, and when top_k cuts one of them it is
\* the one scanned later that is left out
C16_TiesKeepScanOrder ==
    (out.op = "search_similar" /\ out.err = "") =>
        /\ \A i \in 1..Len(out.chunks) : \A j \in (i + 1)..Len(out.chunks) :
               (~out.chunks[i].similarity_score.nan
                  /\ out.chunks[i].similarity_score = out.chunks[j].similarity_score)
                 => out.chunks[i].id < out.chunks[j].id
        /\ \A i \in 1..Len(out.chunks) :
             \A e \in {C3_Scanned(embeddings, documents, out.category)[j] :
                          j \in 1..Len(C3_Scanned(embeddings, documents, out.category))} :
               (e.id \notin {out.chunks[k].id : k \in 1..Len(out.chunks)}
                  /\ ~out.chunks[i].similarity_score.nan
                  /\ Cosine(out.query_embedding, e.embedding)
                        = out.chunks[i].similarity_score)
                 => out.chunks[i].id < e.id


\* C17: with a category, search_similar ranks exactly the chunks of the stored
\* documents of that category: it returns only such chunks, min(top_k, their
\* number) of them; without a category it ranks every stored chunk
C17_CategoryCandidates ==
    out.op = "search_similar" =>
        \E candidates \in {{embeddings[i].id : i \in {j \in 1..Len(embeddings) :
                 \/ out.category = ""
                 \/ /\ embeddings[j].document_id \in DOMAIN documents
                    /\ documents[embeddings[j].document_id].category = out.category}}} :
            /\ out.err = ""
            /\ \A i \in 1..Len(out.chunks) : out.chunks[i].id \in candidates
            /\ \A i \in 1..Len(out.chunks) : \A j \in 1..Len(out.chunks) :
                   out.chunks[i].id = out.chunks[j].id => i = j
            /\ Len(out.chunks) = Min(out.top_k, Cardinality(candidates))
            /\ out.category # "" =>
                   \A i \in 1..Len(out.chunks) :
                       documents[out.chunks[i].document_id].category = out.category

\* a search for "diversidad" with top_k above the rows stored returned the two
\* chunks of the document of that category and not the chunk of the other
C17_Witness ==
    /\ out.op = "search_similar" /\ out.category = "diversidad"
    /\ Len(embeddings) = 3 /\ out.top_k = 4
    /\ {out.chunks[i].id : i \in 1..Len(out.chunks)} = {1, 3}
    /\ documents[embeddings[2].document_id].category = "vacaciones"

\* C18: search_similar does not fail on a query vector or a stored vector of
\* norm zero: the chunk gets similarity 0, and no returned chunk has a
\* similarity_score that is not a number
C18_ZeroNormIsZero ==
    out.op = "search_similar" =>
        /\ out.err = ""
        /\ \A i \in 1..Len(out.chunks) :
               /\ ~out.chunks[i].similarity_score.nan
               /\ (Norm(out.query_embedding) = 0 \/ Norm(out.chunks[i].embedding) = 0)
                     => out.chunks[i].similarity_score = Zero

\* C19: the confidence of every response of generate_response, execute and
\* ask_question is within [0, 1]
C19_ConfidenceInUnitInterval ==
    (out.op \in {"generate_response", "execute", "ask_question"} /\ out.err = "") =>
        (FGe(out.resp.confidence, Zero) /\ FGe(One, out.resp.confidence))


\* C20: for a text of n >= 1 words and 0 <= overlap < chunk_size, split_text
\* returns 1 chunk when n <= chunk_size and
\* ceil((n - overlap) / (chunk_size - overlap)) chunks when n > chunk_size
C20_ChunkCount ==
    (out.op = "split_text" /\ out.n >= 1
        /\ 0 <= out.overlap /\ out.overlap < out.chunk_size) =>
        /\ Len(Words(out.text)) = out.n
        /\ Len(out.chunks)
             = IF out.n <= out.chunk_size THEN 1
               ELSE ((out.n - out.overlap) + (out.chunk_size - out.overlap) - 1)
                       \div (out.chunk_size - out.overlap)

\* six words in windows of three with overlap one: three chunks, the last
\* two words of a window opening the next
C20_Witness ==
    /\ out.op = "split_text" /\ out.n = 6 /\ out.chunk_size = 3 /\ out.overlap = 1
    /\ Len(out.chunks) = 3
    /\ out.chunks[3] = <<"x", " ", "y">>
    /\ out.text[1] = " "


\* C21: for chunk_size >= 1 and 0 <= overlap < chunk_size the window loop of
\* split_text terminates, and its window start is never negative and strictly
\* increases from one iteration to the next
C21_LoopAdvancesAndEnds ==
    /\ [](qry.pc = "loop" => qry.start >= 0)
    /\ [][(qry.pc = "loop" /\ qry'.pc = "loop") => qry'.start > qry.start]_vars
    /\ ((qry.pc = "loop") ~> (qry.pc = "text" /\ out.op = "split_text_loop"))

\* the loop in its third pass over six words, windows of three overlapping
\* by two
C21_Witness ==
    /\ qry.pc = "loop" /\ qry.iterations = 2 /\ qry.start = 2
    /\ qry.chunk_size = 3 /\ qry.overlap = 2 /\ Len(qry.words) = 6


\* the words of the first chunk, then the words of every later chunk without
\* its first overlap words
RECURSIVE Rejoin(_, _, _)
Rejoin(chunks, overlap, i) ==
    IF i > Len(chunks) THEN << >>
    ELSE Let(Words(chunks[i]), LAMBDA ws :
             (IF i = 1 THEN ws ELSE SubSeq(ws, overlap + 1, Len(ws)))
                \o Rejoin(chunks, overlap, i + 1))

\* C22: for a non-empty text and 0 <= overlap < chunk_size, the words of the
\* first chunk of split_text followed by the words of each later chunk minus
\* its first overlap words are exactly the words of the lowercased text, in
\* order, none lost or repeated
C22_ChunksRejoinToCleanedText ==
    (out.op = "split_text" /\ out.text # << >>
        /\ 0 <= out.overlap /\ out.overlap < out.chunk_size) =>
        Rejoin(out.chunks, out.overlap, 1) = Words(Lower(out.text))

\* five words on several lines, the first in capitals, in windows of two
\* overlapping by one: four chunks that rejoin to the five lowercased words
C22_Witness ==
    /\ out.op = "split_text" /\ out.n = 5 /\ out.chunk_size = 2 /\ out.overlap = 1
    /\ \E i \in 1..Len(out.text) : out.text[i] = "\n"
    /\ out.text[1] = "A"
    /\ Len(out.chunks) = 4
    /\ out.chunks[1] = <<"a", " ", "b">>
    /\ Rejoin(out.chunks, out.overlap, 1)
         = << <<"a">>, <<"b">>, <<"google">>, <<"código">>, <<"x">> >>


\* C23: encode_batch returns one vector for each input text that is not blank,
\* in input order, and fails with EmbeddingGenerationError whenever no text
\* that is not blank remains
C23_BatchEncodesNonBlank ==
    out.op = "encode_batch" =>
        \E valid \in {SelectSeq(out.texts, LAMBDA t : Strip(t) # << >>)} :
            IF valid = << >>
            THEN out.err = "EmbeddingGenerationError"
            ELSE /\ out.err = ""
                 /\ out.vecs = [i \in 1..Len(valid) |-> encode_text(valid[i]).vec]


\* C24: when execute is given a department and the department filter leaves
\* results, the sources of the response are exactly those results, in filter
\* order and with their filtered scores, a template answer is composed from
\* them, and the sources are no more than the top_k of the request
C24_SourcesAreFilteredResults ==
    (out.op = "execute" /\ out.err = "" /\ out.req.department # ""
        /\ out.results # << >>) =>
        /\ out.resp.sources = out.results
        /\ Len(out.resp.sources) <= out.req.top_k
        /\ out.resp.answer.kind = "template" =>
               out.resp.answer = TemplateResponse(out.results)


\* C25: delete_document removes the chunks before the document row: between
\* its two steps, and after a failure of the second step, the documents are
\* as they were before the delete, no chunk of the document is left and no
\* chunk is without its parent document
C25_ChunksGoBeforeDocument ==
    /\ [](del.pc = "doc" =>
            \A i \in 1..Len(embeddings) :
                /\ embeddings[i].document_id # del.id
                /\ embeddings[i].document_id \in DOMAIN documents)
    /\ [][ /\ (del.pc = "idle" /\ del'.pc = "doc") => documents' = documents
           /\ (del.pc = "doc" /\ del'.pc = "idle" /\ out'.err # "") =>
                 /\ documents' = documents
                 /\ embeddings' = embeddings
                 /\ \A i \in 1..Len(embeddings') :
                        /\ embeddings'[i].document_id # del.id
                        /\ embeddings'[i].document_id \in DOMAIN documents'
         ]_vars

\* between the two steps of the delete of a client's document: the document
\* is stored, none of its chunks is, and the chunks of others are
C25_Witness ==
    /\ del.pc = "doc" /\ del.id \in DOMAIN documents /\ del.id > MaxPolicies
    /\ ChunksOfDocument(embeddings, del.id) = << >>
    /\ Len(embeddings) > 0


\* C26: under every interleaving of concurrent first requests, each lazily
\* created global service is constructed and initialised at most once, and
\* every request obtains that one instance
C26_OneGlobalInstance ==
    /\ service.main_built <= 1
    /\ service.integrated_built <= 1
    /\ service.integrated_initialized <= 1
    /\ \A r \in Requests :
          qry[r].pc = "done" =>
              qry[r].got = 1


\* C27: once initialize has completed successfully, initialized and
\* system_ready are true and stay true through every later ask_question,
\* add_document and initialize call on the instance; a later initialize
\* returns already_initialized, creates no RAG service and loads no document
C27_InitializedStays ==
    /\ []((out.op = "initialize" /\ out.status = "initialized") =>
             (service.initialized /\ service.system_ready))
    /\ [][ (service.initialized /\ service.system_ready
              /\ service'.instance = service.instance) =>
             /\ service'.initialized /\ service'.system_ready
             /\ service'.rag_created = service.rag_created
             /\ out'.op = "initialize" =>
                   /\ out'.err = "" /\ out'.status = "already_initialized"
                   /\ documents' = documents /\ embeddings' = embeddings
                   /\ service' = service
         ]_vars

\* an initialize call on an instance that has been initialised, has answered
\* a question and has added a document
C27_Witness ==
    /\ out.op = "initialize" /\ out.status = "already_initialized"
    /\ service.initialized /\ service.system_ready
    /\ service.queries_processed > 0 /\ adds > 0 /\ service.documents_loaded > 0


\* no two stored documents that come from the predefined policies or from
\* the preloaded data have the same title
NoPolicyTwice(docs) ==
    \A i, j \in DOMAIN docs :
        (i # j /\ docs[i].metadata.source \in {"predefined", "preloaded"}
               /\ docs[j].metadata.source \in {"predefined", "preloaded"}) =>
            docs[i].title # docs[j].title

C29_AddIsAllOrNothing ==
    [][ (out'.op = "add_document" /\ out'.err # "") =>
            /\ DOMAIN documents' = DOMAIN documents
            /\ get_document_count(documents') = get_document_count(documents)
            /\ embeddings' = embeddings
      ]_vars


\* C30: a document stored by a successful add_document, one of blank content
\* included, has at least one chunk; its chunks carry the chunk_index values
\* 0, 1, ..., k-1 in order, and chunk i holds the i-th chunk of split_text on
\* the content with the embedding of that chunk text
C30_StoredDocumentHasItsChunks ==
    (out.op = "add_document" /\ out.err = "") =>
        \E cs \in {ChunksOfDocument(embeddings, out.id)},
           chunks \in {split_text(out.content, DefaultChunkSize, DefaultOverlap)} :
            /\ out.id \in DOMAIN documents
            /\ Len(cs) >= 1
            /\ Len(cs) = Len(chunks)
            /\ \A i \in 1..Len(cs) :
                  /\ cs[i].chunk_index = i - 1
                  /\ cs[i].chunk_text = chunks[i]
                  /\ cs[i].embedding = encode_text(chunks[i]).vec

====
